---- MODULE Spec2Model ----
(***************************************************************************)
(* Model of src/src/typeorm-to-prisma.js: one jscodeshift transform that   *)
(* runs transformEntityClasses, transformRepositoryUsage and               *)
(* transformModuleImports over the tree of one file and then returns       *)
(* either the printed tree or the original source.                         *)
(*                                                                         *)
(* A file is a record of its class declarations, its statement-level call  *)
(* expressions, its import declarations and its module-registration calls. *)
(* Nodes are records carrying the `type` tag of the parser's node kinds.   *)
(* Identifier names and string values are sequences of word tokens, so     *)
(* that suffix and substring tests of the code are computed, not looked    *)
(* up.  A TypeError raised by the code (a property read on undefined or    *)
(* null) ends the run in pc = "crashed".                                   *)
(***************************************************************************)
EXTENDS Integers, Sequences, FiniteSets, TLC

VARIABLES source, tree, fileChanged, prismaModels, sink, out, pc, runs

vars == <<source, tree, fileChanged, prismaModels, sink, out, pc, runs>>

(***************************************************************************)
(* Bounds                                                                  *)
(***************************************************************************)
MaxProps == 2
MaxRuns == 2

(***************************************************************************)
(* Node constructors                                                       *)
(***************************************************************************)
N(word) == <<word>>

Null == [type |-> "null"]

Identifier(name) == [type |-> "Identifier", name |-> name]

StringLiteral(value) == [type |-> "StringLiteral", value |-> value]

NumericLiteral(value) == [type |-> "NumericLiteral", value |-> value]

BooleanLiteral(value) == [type |-> "BooleanLiteral", value |-> value]

NullLiteral == [type |-> "NullLiteral"]

CallExpression(callee, arguments) ==
    [type |-> "CallExpression", callee |-> callee, arguments |-> arguments]

Decorator(expression) == [type |-> "Decorator", expression |-> expression]

ArrowFunctionExpression(body) ==
    [type |-> "ArrowFunctionExpression", body |-> body]

ThisExpression == [type |-> "ThisExpression"]

MemberExpression(object, property) ==
    [type |-> "MemberExpression", object |-> object, property |-> property]

ObjectExpression(properties) ==
    [type |-> "ObjectExpression", properties |-> properties]

ArrayExpression(elements) ==
    [type |-> "ArrayExpression", elements |-> elements]

Property(key, value) == [type |-> "Property", key |-> key, value |-> value]

SpreadElement(argument) == [type |-> "SpreadElement", argument |-> argument]

CommentLine(text) == [type |-> "CommentLine", value |-> text]

CommentBlock(text) == [type |-> "CommentBlock", value |-> text]

TSTypeReference(typeName, params) ==
    [type |-> "TSTypeReference", typeName |-> Identifier(typeName),
     typeParameters |-> IF params = <<>> THEN Null
                        ELSE [type |-> "TSTypeParameterInstantiation",
                              params |-> params]]

(***************************************************************************)
(* Property reads as JavaScript performs them: a missing property reads    *)
(* as undefined (the empty token sequence for a name), and a read on an    *)
(* undefined value throws.                                                 *)
(***************************************************************************)
Has(node, field) == field \in DOMAIN node

NameOf(node) == IF Has(node, "name") THEN node.name ELSE <<>>

\* p.key is undefined for a SpreadElement: p.key.name throws
NoKey(p) == ~Has(p, "key")

\* p.key.name === word || p.key.value === word
KeyIs(p, word) ==
    \/ NameOf(p.key) = N(word)
    \/ p.key.type = "StringLiteral" /\ p.key.value = N(word)

\* p.key.name || p.key.value
KeyText(p) ==
    IF NameOf(p.key) # <<>> THEN p.key.name
    ELSE IF p.key.type = "StringLiteral" THEN p.key.value ELSE <<>>

\* Array.prototype.find / some / findIndex with a predicate reading p.key:
\* the scan stops at the first match and throws on a keyless element it
\* reaches before one.
FirstKey(props, word) ==
    IF \E i \in 1..Len(props) : ~NoKey(props[i]) /\ KeyIs(props[i], word)
    THEN CHOOSE i \in 1..Len(props) :
            /\ ~NoKey(props[i]) /\ KeyIs(props[i], word)
            /\ \A k \in 1..(i - 1) : NoKey(props[k]) \/ ~KeyIs(props[k], word)
    ELSE 0

ScanThrows(props, word) ==
    \E j \in 1..Len(props) :
        /\ NoKey(props[j])
        /\ (FirstKey(props, word) = 0 \/ j < FirstKey(props, word))

RemoveAt(s, i) == SubSeq(s, 1, i - 1) \o SubSeq(s, i + 1, Len(s))

(***************************************************************************)
(* Context resolver: getModelNameFromContext.  <<>> stands for null.       *)
(***************************************************************************)
\* className.match(/(.+)(Service|Controller|Repository)$/): group 1, or <<>>
ServiceMatch(className) ==
    IF /\ Len(className) >= 2
       /\ className[Len(className)] \in {"Service", "Controller", "Repository"}
    THEN SubSeq(className, 1, Len(className) - 1)
    ELSE <<>>

\* the name of the nearest enclosing ClassDeclaration that has an id
EnclosingClassName(call, root) ==
    IF call.cls = 0 THEN <<>>
    ELSE IF root.classes[call.cls].id.type = "null" THEN <<>>
    ELSE root.classes[call.cls].id.name

IsRepositoryProperty(prop) ==
    /\ prop.key.type = "Identifier"
    /\ prop.key.name = N("repository")
    /\ prop.typeAnnotation.type # "null"

\* the generic parameter of the first `repository: Repository<T>` property
\* of the first class declaration named className
RepositoryPropertyType(className, root) ==
    LET named == SelectSeq(root.classes,
                     LAMBDA c : c.id.type # "null" /\ c.id.name = className)
    IN  IF Len(named) = 0 THEN <<>>
        ELSE LET properties == SelectSeq(named[1].properties,
                                         IsRepositoryProperty)
             IN  IF Len(properties) = 0 THEN <<>>
                 ELSE LET typeAnnotation == properties[1].typeAnnotation
                      IN  IF /\ typeAnnotation.type = "TSTypeReference"
                             /\ NameOf(typeAnnotation.typeName) = N("Repository")
                             /\ typeAnnotation.typeParameters.type # "null"
                             /\ Len(typeAnnotation.typeParameters.params) > 0
                             /\ typeAnnotation.typeParameters.params[1].type
                                    = "TSTypeReference"
                          THEN NameOf(typeAnnotation.typeParameters.params[1]
                                          .typeName)
                          ELSE <<>>

\* variant: only the class-name suffix is consulted
getModelNameFromContext_SuffixOnly(call, root) ==
    IF EnclosingClassName(call, root) = <<>> THEN <<>>
    ELSE ServiceMatch(EnclosingClassName(call, root))

getModelNameFromContext(call, root) ==
    LET className == EnclosingClassName(call, root)
        serviceMatch == IF className = <<>> THEN <<>>
                        ELSE ServiceMatch(className)
    IN  IF serviceMatch # <<>> THEN serviceMatch
        ELSE IF /\ call.callee.type = "MemberExpression"
                /\ call.callee.object.type = "MemberExpression"
                /\ call.callee.object.property.type = "Identifier"
                /\ call.callee.object.property.name = N("repository")
                /\ call.callee.object.object.type = "ThisExpression"
                /\ className # <<>>
             THEN RepositoryPropertyType(className, root)
             ELSE <<>>

\* variant: the fallback reuses the 'Unknown' placeholder of entity types
ModelOrPlaceholder_Unknown(call, root) ==
    IF getModelNameFromContext(call, root) = <<>> THEN N("Unknown")
    ELSE getModelNameFromContext(call, root)

\* getModelNameFromContext(callPath) || 'model'
ModelOrPlaceholder(call, root) ==
    IF getModelNameFromContext(call, root) = <<>> THEN N("model")
    ELSE getModelNameFromContext(call, root)

\* this.prisma.<model>
PrismaModel(call, root) ==
    MemberExpression(
        MemberExpression(ThisExpression, Identifier(N("prisma"))),
        Identifier(ModelOrPlaceholder(call, root)))

(***************************************************************************)
(* Argument transforms of the rule table                                   *)
(***************************************************************************)
Where(value) == Property(Identifier(N("where")), value)

Data(value) == Property(Identifier(N("data")), value)

WhereId(idValue) ==
    Where(ObjectExpression(<<Property(Identifier(N("id")), idValue)>>))

\* findOneBy / findBy: wrap the first argument in { where: arg }
WrapFirstInWhere(args) ==
    IF Len(args) > 0
    THEN [args EXCEPT ![1] = ObjectExpression(<<Where(args[1])>>)]
    ELSE args

PassThroughKeys ==
    {N("relations"), N("select"), N("order"), N("skip"), N("take")}

IsPassThrough(p) == KeyText(p) \in PassThroughKeys

IsCriteria(p) == KeyText(p) \notin PassThroughKeys

transformRelationsToInclude(options) ==
    IF options.type # "ObjectExpression" THEN options
    ELSE LET i == FirstKey(options.properties, "relations")
         IN  IF i = 0 THEN options
             ELSE [options EXCEPT
                      !.properties[i].key = Identifier(N("include"))]

\* variant: the criteria are copied into `where` but not removed
transformFindOneArguments_KeepCriteria(args) ==
    IF Len(args) = 0 THEN args
    ELSE IF args[1].type # "ObjectExpression" THEN args
    ELSE LET firstArg == args[1]
             criteria == SelectSeq(firstArg.properties, IsCriteria)
             wrapped ==
                 IF FirstKey(firstArg.properties, "where") = 0
                    /\ Len(criteria) > 0
                 THEN [firstArg EXCEPT !.properties =
                          Append(firstArg.properties,
                                 Where(ObjectExpression(criteria)))]
                 ELSE firstArg
         IN  [args EXCEPT ![1] = transformRelationsToInclude(wrapped)]

transformFindOneArguments(args) ==
    IF Len(args) = 0 THEN args
    ELSE IF args[1].type # "ObjectExpression" THEN args
    ELSE LET firstArg == args[1]
             criteria == SelectSeq(firstArg.properties, IsCriteria)
             wrapped ==
                 IF FirstKey(firstArg.properties, "where") = 0
                    /\ Len(criteria) > 0
                 THEN [firstArg EXCEPT !.properties =
                          Append(SelectSeq(firstArg.properties, IsPassThrough),
                                 Where(ObjectExpression(criteria)))]
                 ELSE firstArg
         IN  [args EXCEPT ![1] = transformRelationsToInclude(wrapped)]

FindOneThrows(args) ==
    /\ Len(args) > 0
    /\ args[1].type = "ObjectExpression"
    /\ \/ ScanThrows(args[1].properties, "where")
       \/ /\ FirstKey(args[1].properties, "where") = 0
          /\ \E j \in 1..Len(args[1].properties) : NoKey(args[1].properties[j])
       \/ ScanThrows(args[1].properties, "relations")

\* variant: an identifier argument is not recognised as an id
transformDeleteArguments_NoIdentifier(args) ==
    IF Len(args) = 0 THEN args
    ELSE IF args[1].type \in {"NumericLiteral", "StringLiteral"}
    THEN [args EXCEPT ![1] = ObjectExpression(<<WhereId(args[1])>>)]
    ELSE IF args[1].type = "ObjectExpression"
    THEN [args EXCEPT ![1] = ObjectExpression(<<Where(args[1])>>)]
    ELSE args

transformDeleteArguments(args) ==
    IF Len(args) = 0 THEN args
    ELSE IF args[1].type \in {"NumericLiteral", "StringLiteral", "Identifier"}
    THEN [args EXCEPT ![1] = ObjectExpression(<<WhereId(args[1])>>)]
    ELSE IF args[1].type = "ObjectExpression"
    THEN [args EXCEPT ![1] = ObjectExpression(<<Where(args[1])>>)]
    ELSE args

\* dataObj.properties.findIndex((p) => p.key.name === 'id')
FirstNamed(props, word) ==
    IF \E i \in 1..Len(props) : ~NoKey(props[i]) /\ NameOf(props[i].key) = N(word)
    THEN CHOOSE i \in 1..Len(props) :
            /\ ~NoKey(props[i]) /\ NameOf(props[i].key) = N(word)
            /\ \A k \in 1..(i - 1) :
                   NoKey(props[k]) \/ NameOf(props[k].key) # N(word)
    ELSE 0

\* the property test of the save loop
IsDefinedId(prop) ==
    /\ NameOf(prop.key) = N("id")
    /\ prop.value.type # "NullLiteral"
    /\ Has(prop.value, "value")

\* index of the property at which the save loop breaks, 0 if it never does
SaveIdIndex(args) ==
    IF Len(args) = 1 /\ args[1].type = "ObjectExpression"
    THEN LET props == args[1].properties
         IN  IF \E i \in 1..Len(props) : ~NoKey(props[i]) /\ IsDefinedId(props[i])
             THEN CHOOSE i \in 1..Len(props) :
                     /\ ~NoKey(props[i]) /\ IsDefinedId(props[i])
                     /\ \A k \in 1..(i - 1) :
                            NoKey(props[k]) \/ ~IsDefinedId(props[k])
             ELSE 0
    ELSE 0

hasIdProperty(args) == SaveIdIndex(args) # 0

SaveThrows(args) ==
    /\ Len(args) = 1
    /\ args[1].type = "ObjectExpression"
    /\ \E j \in 1..Len(args[1].properties) :
          /\ NoKey(args[1].properties[j])
          /\ (SaveIdIndex(args) = 0 \/ j < SaveIdIndex(args))

\* the update form: { where: { id: <value of first id property> }, data: rest }
SaveUpdateArguments(args) ==
    LET dataObj == args[1]
        idPropIndex == FirstNamed(dataObj.properties, "id")
        idValue == dataObj.properties[idPropIndex].value
        rest == [dataObj EXCEPT !.properties = RemoveAt(@, idPropIndex)]
    IN  [args EXCEPT ![1] = ObjectExpression(<<WhereId(idValue), Data(rest)>>)]

\* the create form: only a sole object literal is wrapped in { data: arg }
SaveCreateArguments(args) ==
    IF Len(args) = 1 /\ args[1].type = "ObjectExpression"
    THEN [args EXCEPT ![1] = ObjectExpression(<<Data(args[1])>>)]
    ELSE args

\* variant: the data argument is read from the wrong position
UpdateArguments_IdAsData(args) ==
    IF Len(args) >= 2
    THEN <<ObjectExpression(<<WhereId(args[1]), Data(args[1])>>)>>
    ELSE args

\* update(id, data, ...) -> update({ where: { id }, data })
UpdateArguments(args) ==
    IF Len(args) >= 2
    THEN <<ObjectExpression(<<WhereId(args[1]), Data(args[2])>>)>>
    ELSE args

CountArguments(args) ==
    IF /\ Len(args) > 0
       /\ args[1].type = "ObjectExpression"
       /\ FirstKey(args[1].properties, "where") = 0
    THEN [args EXCEPT ![1] = ObjectExpression(<<Where(args[1])>>)]
    ELSE args

CountThrows(args) ==
    /\ Len(args) > 0
    /\ args[1].type = "ObjectExpression"
    /\ ScanThrows(args[1].properties, "where")

(***************************************************************************)
(* transformRepositoryUsage                                                *)
(***************************************************************************)
SaveNote ==
    CommentLine(" NOTE: TypeORM save could be either create or update. Verify correct behavior.")

QueryBuilderTodo ==
    CommentLine(" TODO: Replace TypeORM query builder with Prisma equivalent - manual conversion needed")

QueryBuilderExample ==
    CommentBlock(" Example Prisma replacement for query builder: ...")

\* param is a parameter property typed Repository<...>
IsRepositoryParam(param) ==
    /\ param.type = "TSParameterProperty"
    /\ param.parameter.type = "Identifier"
    /\ param.parameter.typeAnnotation.type # "null"
    /\ param.parameter.typeAnnotation.type = "TSTypeReference"
    /\ NameOf(param.parameter.typeAnnotation.typeName) = N("Repository")

\* j.identifier('private prisma') annotated with PrismaService
PrismaParam ==
    [type |-> "Identifier", name |-> N("private prisma"),
     typeAnnotation |-> TSTypeReference(N("PrismaService"), <<>>)]

ReplaceRepositoryParams(params) ==
    [i \in 1..Len(params) |->
        IF IsRepositoryParam(params[i]) THEN PrismaParam ELSE params[i]]

hasRepositoryParam(class) ==
    \E k \in 1..Len(class.constructors) :
        \E i \in 1..Len(class.constructors[k].params) :
            IsRepositoryParam(class.constructors[k].params[i])

TransformConstructors(class) ==
    [class EXCEPT !.constructors =
        [k \in 1..Len(class.constructors) |->
            [params |-> ReplaceRepositoryParams(class.constructors[k].params)]]]

\* the guard of the call-site loop: <x>.repository.<method>(...)
IsRepositoryCall(call) ==
    /\ call.callee.type = "MemberExpression"
    /\ call.callee.object.type = "MemberExpression"
    /\ NameOf(call.callee.object.property) = N("repository")

MethodName(call) == NameOf(call.callee.property)

\* variant: the createQueryBuilder row rewrites the call like the find row
TargetMethod_QueryBuilder(call) ==
    LET methodName == MethodName(call)
    IN  CASE methodName \in {N("find"), N("createQueryBuilder")} ->
                N("findMany")
          [] methodName = N("findOne") -> N("findUnique")
          [] methodName = N("findOneBy") -> N("findUnique")
          [] methodName = N("findBy") -> N("findMany")
          [] methodName = N("save") ->
                IF hasIdProperty(call.arguments) THEN N("update")
                ELSE N("create")
          [] methodName = N("update") -> N("update")
          [] methodName \in {N("delete"), N("remove")} -> N("delete")
          [] methodName = N("count") -> N("count")
          [] OTHER -> <<>>

\* the target method of each rewriting row of the switch, <<>> for no row
TargetMethod(call) ==
    LET methodName == MethodName(call)
    IN  CASE methodName = N("find") -> N("findMany")
          [] methodName = N("findOne") -> N("findUnique")
          [] methodName = N("findOneBy") -> N("findUnique")
          [] methodName = N("findBy") -> N("findMany")
          [] methodName = N("save") ->
                IF hasIdProperty(call.arguments) THEN N("update")
                ELSE N("create")
          [] methodName = N("update") -> N("update")
          [] methodName \in {N("delete"), N("remove")} -> N("delete")
          [] methodName = N("count") -> N("count")
          [] OTHER -> <<>>

TargetArguments(call) ==
    LET methodName == MethodName(call)
        args == call.arguments
    IN  CASE methodName = N("findOne") -> transformFindOneArguments(args)
          [] methodName \in {N("findOneBy"), N("findBy")} ->
                WrapFirstInWhere(args)
          [] methodName = N("save") ->
                IF hasIdProperty(args) THEN SaveUpdateArguments(args)
                ELSE SaveCreateArguments(args)
          [] methodName = N("update") -> UpdateArguments(args)
          [] methodName \in {N("delete"), N("remove")} ->
                transformDeleteArguments(args)
          [] methodName = N("count") -> CountArguments(args)
          [] OTHER -> args

InsertedBefore(call) ==
    LET methodName == MethodName(call)
    IN  CASE methodName = N("save") -> <<SaveNote>>
          [] methodName = N("createQueryBuilder") ->
                <<QueryBuilderTodo, QueryBuilderExample>>
          [] OTHER -> <<>>

CallThrows(call) ==
    LET methodName == MethodName(call)
    IN  CASE methodName = N("findOne") -> FindOneThrows(call.arguments)
          [] methodName = N("save") -> SaveThrows(call.arguments)
          [] methodName = N("count") -> CountThrows(call.arguments)
          [] OTHER -> FALSE

\* one iteration of the call-site loop
RewriteCall(call, root) ==
    IF ~IsRepositoryCall(call) THEN call
    ELSE IF TargetMethod(call) = <<>>
    THEN [call EXCEPT !.leading = @ \o InsertedBefore(call)]
    ELSE [call EXCEPT
            !.callee = MemberExpression(PrismaModel(call, root),
                                        Identifier(TargetMethod(call))),
            !.arguments = TargetArguments(call),
            !.leading = @ \o InsertedBefore(call)]

\* fileChanged.services = true sits after the switch, inside the guard
CallSetsServices(call) == IsRepositoryCall(call)

RepositoryUsageThrows(root) ==
    \E i \in 1..Len(root.calls) :
        IsRepositoryCall(root.calls[i]) /\ CallThrows(root.calls[i])

RepositoryUsageTree(root) ==
    LET withCtors == [root EXCEPT !.classes =
                        [i \in 1..Len(root.classes) |->
                            TransformConstructors(root.classes[i])]]
    IN  [withCtors EXCEPT !.calls =
            [i \in 1..Len(root.calls) |-> RewriteCall(root.calls[i], withCtors)]]

RepositoryUsageSetsServices(root) ==
    \/ \E i \in 1..Len(root.classes) : hasRepositoryParam(root.classes[i])
    \/ \E i \in 1..Len(root.calls) : CallSetsServices(root.calls[i])

(***************************************************************************)
(* Mapping tables and type helpers                                         *)
(***************************************************************************)
\* String.prototype.toLowerCase on the words that occur in the inputs
LowerWord(w) ==
    CASE w = "User" -> "user"
      [] w = "Order" -> "order"
      [] w = "Service" -> "service"
      [] w = "Profile" -> "profile"
      [] w = "Date" -> "date"
      [] w = "VARCHAR" -> "varchar"
      [] w = "TypeORM" -> "typeorm"
      [] w = "Repository" -> "repository"
      [] OTHER -> w

toLowerCase(name) == [i \in 1..Len(name) |-> LowerWord(name[i])]

\* typeormToPrismaTypeMap: the keys read with a lower-cased name
typeormToPrismaTypeMap ==
    [string |-> "String", number |-> "Int", boolean |-> "Boolean",
     json |-> "Json", varchar |-> "String", text |-> "String", int |-> "Int",
     integer |-> "Int", smallint |-> "Int", bigint |-> "BigInt",
     float |-> "Float", double |-> "Float", decimal |-> "Decimal",
     date |-> "DateTime", datetime |-> "DateTime", timestamp |-> "DateTime",
     enum |-> "Enum", jsonb |-> "Json", uuid |-> "String"]
    @@ ("simple-array" :> "String[]") @@ ("simple-json" :> "Json")

mapTypeOrmTypeToPrisma(typeormType) ==
    LET lower == toLowerCase(typeormType)
    IN  IF Len(lower) = 1 /\ lower[1] \in DOMAIN typeormToPrismaTypeMap
        THEN N(typeormToPrismaTypeMap[lower[1]])
        ELSE N("String")

extractTypeFromProperty(property) ==
    LET typeAnnotation == property.typeAnnotation
    IN  CASE typeAnnotation.type = "null" -> N("String")
          [] typeAnnotation.type = "TSStringKeyword" -> N("String")
          [] typeAnnotation.type = "TSNumberKeyword" -> N("Int")
          [] typeAnnotation.type = "TSBooleanKeyword" -> N("Boolean")
          [] typeAnnotation.type = "TSTypeReference" ->
                LET typeName == NameOf(typeAnnotation.typeName)
                IN  CASE typeName = N("Date") -> N("DateTime")
                      [] typeName = N("number") -> N("Int")
                      [] typeName = N("string") -> N("String")
                      [] typeName = N("boolean") -> N("Boolean")
                      [] OTHER -> mapTypeOrmTypeToPrisma(typeName)
          [] OTHER -> N("String")

(***************************************************************************)
(* transformEntityClasses                                                  *)
(***************************************************************************)
EntityNote ==
    CommentLine(" The TypeORM entity below should be replaced with the Prisma Client. Use the Prisma schema generated by npx prisma db pull instead.")

\* decorator.expression.callee.name, read only on call expressions
DecoratorName(decorator) == NameOf(decorator.expression.callee)

IsCallDecorator(decorator) == decorator.expression.type = "CallExpression"

IsEntityDecorator(decorator) ==
    IsCallDecorator(decorator) /\ DecoratorName(decorator) = N("Entity")

\* j(path).find(j.Decorator): the decorators of the class and of its fields
RECURSIVE PropertyDecorators(_)
PropertyDecorators(properties) ==
    IF properties = <<>> THEN <<>>
    ELSE Head(properties).decorators \o PropertyDecorators(Tail(properties))

AllDecorators(class) == class.decorators \o PropertyDecorators(class.properties)

isEntity(class) ==
    \E i \in 1..Len(AllDecorators(class)) :
        IsEntityDecorator(AllDecorators(class)[i])

\* the Entity decorator reads prop.key.name of every option property
EntityDecoratorThrows(decorator) ==
    /\ IsEntityDecorator(decorator)
    /\ Len(decorator.expression.arguments) > 0
    /\ decorator.expression.arguments[1].type = "ObjectExpression"
    /\ \E j \in 1..Len(decorator.expression.arguments[1].properties) :
          NoKey(decorator.expression.arguments[1].properties[j])

\* whether the decorator assigns entityOptions.name
SetsEntityName(decorator) ==
    /\ IsEntityDecorator(decorator)
    /\ Len(decorator.expression.arguments) > 0
    /\ LET arg == decorator.expression.arguments[1]
       IN  \/ arg.type = "StringLiteral"
           \/ /\ arg.type = "ObjectExpression"
              /\ \E j \in 1..Len(arg.properties) :
                    NameOf(arg.properties[j].key) = N("name")

\* the value the decorator assigns; <<>> stands for undefined
AssignedEntityName(decorator) ==
    LET arg == decorator.expression.arguments[1]
    IN  IF arg.type = "StringLiteral" THEN arg.value
        ELSE LET last == CHOOSE j \in 1..Len(arg.properties) :
                            /\ NameOf(arg.properties[j].key) = N("name")
                            /\ \A k \in (j + 1)..Len(arg.properties) :
                                   NameOf(arg.properties[k].key) # N("name")
             IN  IF arg.properties[last].value.type = "StringLiteral"
                 THEN arg.properties[last].value.value
                 ELSE <<>>

RECURSIVE EntityOptionsName(_)
EntityOptionsName(decorators) ==
    IF decorators = <<>> THEN <<>>
    ELSE LET last == decorators[Len(decorators)]
         IN  IF SetsEntityName(last) THEN AssignedEntityName(last)
             ELSE EntityOptionsName(SubSeq(decorators, 1, Len(decorators) - 1))

\* entityOptions.name || className.toLowerCase()
TableName(class) ==
    IF EntityOptionsName(AllDecorators(class)) # <<>>
    THEN EntityOptionsName(AllDecorators(class))
    ELSE toLowerCase(class.id.name)

(***************************************************************************)
(* Rendering of the fields of one entity class.  A rendered line is        *)
(* [name, scalar, modifier, attrs]: `name scalar<modifier> attrs...`.      *)
(***************************************************************************)
Line(name, scalar, modifier, attrs) ==
    [name |-> name, scalar |-> scalar, modifier |-> modifier, attrs |-> attrs]

Attr(text) == [attr |-> text]

\* a default expression of the schema language, e.g. now()
Fn(text) == [type |-> "SchemaFunction", text |-> text]

DefaultAttr(value) == [attr |-> "@default", value |-> value]

RelationAttr(relationName) == [attr |-> "@relation", value |-> relationName]

\* variant: every generated identity is an autoincrement integer
PrimaryGeneratedLine_Autoincrement(property, decoratorArgs) ==
    Line(property.key.name, N("Int"), "",
         <<Attr("@id"), DefaultAttr(Fn("autoincrement()"))>>)

\* case 'PrimaryGeneratedColumn'
PrimaryGeneratedLine(property, decoratorArgs) ==
    LET isString == Len(decoratorArgs) > 0
                    /\ decoratorArgs[1].type = "StringLiteral"
        idType == IF isString /\ decoratorArgs[1].value = N("uuid")
                  THEN N("String") ELSE N("Int")
        idOptions ==
            IF Len(decoratorArgs) > 0
            THEN IF isString /\ decoratorArgs[1].value = N("uuid")
                 THEN <<Attr("@id"), DefaultAttr(Fn("uuid()"))>>
                 ELSE IF isString /\ decoratorArgs[1].value = N("increment")
                 THEN <<Attr("@id"), DefaultAttr(Fn("autoincrement()"))>>
                 ELSE <<>>
            ELSE <<Attr("@id"), DefaultAttr(Fn("autoincrement()"))>>
    IN  Line(property.key.name, idType, "", idOptions)

\* case 'default' of the Column options: the option pushed, if any
ColumnDefault(value) ==
    IF value.type = "StringLiteral" THEN <<DefaultAttr(value)>>
    ELSE IF value.type = "NumericLiteral"
    THEN IF value.value # 0 THEN <<DefaultAttr(value)>> ELSE <<>>
    ELSE IF value.type = "BooleanLiteral"
    THEN IF value.value THEN <<DefaultAttr(value)>> ELSE <<>>
    ELSE IF value.type = "CallExpression" /\ NameOf(value.callee) = N("Date")
    THEN <<DefaultAttr(Fn("now()"))>>
    ELSE <<>>

IsTrue(value) == value.type = "BooleanLiteral" /\ value.value

ColumnOption(prop) ==
    CASE NameOf(prop.key) = N("nullable") ->
            IF IsTrue(prop.value) THEN <<Attr("?")>> ELSE <<>>
      [] NameOf(prop.key) = N("default") -> ColumnDefault(prop.value)
      [] NameOf(prop.key) = N("unique") ->
            IF IsTrue(prop.value) THEN <<Attr("@unique")>> ELSE <<>>
      [] OTHER -> <<>>

RECURSIVE ColumnOptions(_)
ColumnOptions(props) ==
    IF props = <<>> THEN <<>>
    ELSE ColumnOption(Head(props)) \o ColumnOptions(Tail(props))

\* the last `type: '<string>'` option decides; 'String' without one
RECURSIVE ColumnOptionsType(_)
ColumnOptionsType(props) ==
    IF props = <<>> THEN N("String")
    ELSE LET last == props[Len(props)]
         IN  IF NameOf(last.key) = N("type")
                /\ last.value.type = "StringLiteral"
             THEN mapTypeOrmTypeToPrisma(last.value.value)
             ELSE ColumnOptionsType(SubSeq(props, 1, Len(props) - 1))

\* case 'Column'
ColumnLine(property, decoratorArgs) ==
    LET columnType ==
            IF Len(decoratorArgs) > 0
            THEN IF decoratorArgs[1].type = "StringLiteral"
                 THEN mapTypeOrmTypeToPrisma(decoratorArgs[1].value)
                 ELSE IF decoratorArgs[1].type = "ObjectExpression"
                 THEN ColumnOptionsType(decoratorArgs[1].properties)
                 ELSE N("String")
            ELSE extractTypeFromProperty(property)
        columnOptions ==
            IF Len(decoratorArgs) > 0
               /\ decoratorArgs[1].type = "ObjectExpression"
            THEN ColumnOptions(decoratorArgs[1].properties)
            ELSE <<>>
    IN  Line(property.key.name, columnType, "", columnOptions)

\* the relation target: the thunk body, else (no argument) the field type
RelationTarget(property, decoratorArgs) ==
    LET targetType ==
            IF Len(decoratorArgs) > 0
            THEN IF decoratorArgs[1].type = "ArrowFunctionExpression"
                    /\ decoratorArgs[1].body.type = "Identifier"
                 THEN decoratorArgs[1].body.name
                 ELSE <<>>
            ELSE IF property.typeAnnotation.type # "null"
                    /\ property.typeAnnotation.type = "TSTypeReference"
                 THEN NameOf(property.typeAnnotation.typeName)
                 ELSE <<>>
    IN  IF targetType = <<>> THEN N("Unknown") ELSE targetType

\* variant: all four relation kinds are named after the class and the target
RelationLines_TargetNamed(className, property, decoratorName, decoratorArgs) ==
    LET fieldName == property.key.name
        targetType == RelationTarget(property, decoratorArgs)
        relationName == className \o N("To") \o targetType
    IN  CASE decoratorName = N("OneToOne") ->
                <<Line(fieldName, targetType, "?", <<RelationAttr(relationName)>>)>>
          [] decoratorName = N("ManyToOne") ->
                <<Line(fieldName, targetType, "", <<RelationAttr(relationName)>>),
                  Line(fieldName \o N("Id"), N("Int"), "", <<>>)>>
          [] decoratorName \in {N("OneToMany"), N("ManyToMany")} ->
                <<Line(fieldName, targetType, "[]",
                       <<RelationAttr(relationName)>>)>>

\* cases 'OneToOne', 'ManyToOne', 'OneToMany', 'ManyToMany'
RelationLines(className, property, decoratorName, decoratorArgs) ==
    LET fieldName == property.key.name
        targetType == RelationTarget(property, decoratorArgs)
    IN  CASE decoratorName = N("OneToOne") ->
                <<Line(fieldName, targetType, "?",
                       <<RelationAttr(className \o N("To") \o targetType)>>)>>
          [] decoratorName = N("ManyToOne") ->
                <<Line(fieldName, targetType, "",
                       <<RelationAttr(fieldName \o N("Relation"))>>),
                  Line(fieldName \o N("Id"), N("Int"), "", <<>>)>>
          [] decoratorName = N("OneToMany") ->
                <<Line(fieldName, targetType, "[]",
                       <<RelationAttr(fieldName \o N("Relation"))>>)>>
          [] decoratorName = N("ManyToMany") ->
                <<Line(fieldName, targetType, "[]",
                       <<RelationAttr(className \o N("To") \o targetType)>>)>>

RelationDecorators ==
    {N("OneToOne"), N("ManyToOne"), N("OneToMany"), N("ManyToMany")}

\* the switch over decoratorName for one decorator of one field
DecoratorLines(className, property, decorator) ==
    IF ~IsCallDecorator(decorator) THEN <<>>
    ELSE LET decoratorName == DecoratorName(decorator)
             decoratorArgs == decorator.expression.arguments
         IN  CASE decoratorName = N("PrimaryGeneratedColumn") ->
                     <<PrimaryGeneratedLine(property, decoratorArgs)>>
               [] decoratorName = N("PrimaryColumn") ->
                     <<Line(property.key.name,
                            extractTypeFromProperty(property), "",
                            <<Attr("@id")>>)>>
               [] decoratorName = N("Column") ->
                     <<ColumnLine(property, decoratorArgs)>>
               [] decoratorName = N("CreateDateColumn") ->
                     <<Line(property.key.name, N("DateTime"), "",
                            <<DefaultAttr(Fn("now()"))>>)>>
               [] decoratorName = N("UpdateDateColumn") ->
                     <<Line(property.key.name, N("DateTime"), "",
                            <<Attr("@updatedAt")>>)>>
               [] decoratorName = N("DeleteDateColumn") ->
                     <<Line(property.key.name, N("DateTime"), "?",
                            <<[attr |-> "@map", value |-> "deleted_at"]>>)>>
               [] decoratorName \in RelationDecorators ->
                     RelationLines(className, property, decoratorName,
                                   decoratorArgs)
               [] OTHER -> <<>>

\* the Column case reads prop.key.name of every option property
DecoratorThrows(decorator) ==
    /\ IsCallDecorator(decorator)
    /\ DecoratorName(decorator) = N("Column")
    /\ Len(decorator.expression.arguments) > 0
    /\ decorator.expression.arguments[1].type = "ObjectExpression"
    /\ \E j \in 1..Len(decorator.expression.arguments[1].properties) :
          NoKey(decorator.expression.arguments[1].properties[j])

RECURSIVE PropertyLines(_, _, _)
PropertyLines(className, property, decorators) ==
    IF decorators = <<>> THEN <<>>
    ELSE DecoratorLines(className, property, Head(decorators))
         \o PropertyLines(className, property, Tail(decorators))

RECURSIVE FieldLines(_, _)
FieldLines(className, properties) ==
    IF properties = <<>> THEN <<>>
    ELSE PropertyLines(className, Head(properties), Head(properties).decorators)
         \o FieldLines(className, Tail(properties))

\* modelDefinition: `model <name> {`, the field lines, `@@map("<table>")`
ModelDefinition(class) ==
    [model |-> class.id.name,
     fields |-> FieldLines(class.id.name, class.properties),
     map |-> TableName(class)]

ClassThrows(class) ==
    \/ class.id.type = "null"
    \/ \E i \in 1..Len(AllDecorators(class)) :
          EntityDecoratorThrows(AllDecorators(class)[i])
    \/ /\ isEntity(class)
       /\ \E i \in 1..Len(PropertyDecorators(class.properties)) :
             DecoratorThrows(PropertyDecorators(class.properties)[i])

\* prismaModels.set(className, modelDefinition) on an insertion-ordered Map
MapSet(map, key, value) ==
    IF \E i \in 1..Len(map) : map[i].key = key
    THEN [i \in 1..Len(map) |->
            IF map[i].key = key THEN [key |-> key, value |-> value] ELSE map[i]]
    ELSE Append(map, [key |-> key, value |-> value])

RECURSIVE EntityModels(_)
EntityModels(classes) ==
    IF classes = <<>> THEN <<>>
    ELSE LET init == SubSeq(classes, 1, Len(classes) - 1)
             last == classes[Len(classes)]
         IN  IF isEntity(last)
             THEN MapSet(EntityModels(init), last.id.name, ModelDefinition(last))
             ELSE EntityModels(init)

EntityClassesThrows(root) ==
    \E i \in 1..Len(root.classes) : ClassThrows(root.classes[i])

EntityClassesTree(root) ==
    [root EXCEPT !.classes =
        [i \in 1..Len(root.classes) |->
            IF isEntity(root.classes[i])
            THEN [root.classes[i] EXCEPT !.leading = Append(@, EntityNote)]
            ELSE root.classes[i]]]

EntityClassesSetsEntities(root) ==
    \E i \in 1..Len(root.classes) : isEntity(root.classes[i])

(***************************************************************************)
(* transformModuleImports                                                  *)
(***************************************************************************)
ImportSpecifier(name) ==
    [type |-> "ImportSpecifier", imported |-> Identifier(name)]

ImportDeclaration(specifiers, sourcePath) ==
    [type |-> "ImportDeclaration", specifiers |-> specifiers,
     source |-> StringLiteral(sourcePath), leading |-> <<>>]

EntityImportTodo ==
    CommentLine(" TODO: Review entity import - might need to use Prisma types instead")

PrismaServiceImport ==
    ImportDeclaration(<<ImportSpecifier(N("PrismaService"))>>,
                      <<".", "/", "prisma.service">>)

PrismaModulePath == <<".", "/", "prisma", "/", "prisma.module">>

PrismaModuleImport ==
    ImportDeclaration(<<ImportSpecifier(N("PrismaModule"))>>, PrismaModulePath)

\* whether pattern occurs in path as a run of consecutive tokens
Includes(path, pattern) ==
    \E i \in 0..(Len(path) - Len(pattern)) :
        \A k \in 1..Len(pattern) : path[i + k] = pattern[k]

Imports(s, name) == s.type = "ImportSpecifier" /\ NameOf(s.imported) = name

hasRepositoryImport(importDecl) ==
    \E i \in 1..Len(importDecl.specifiers) :
        Imports(importDecl.specifiers[i], N("Repository"))

hasEntityImport(importDecl) ==
    \E i \in 1..Len(importDecl.specifiers) :
        Imports(importDecl.specifiers[i], N("Entity"))

RepositorySymbols == {N("Repository"), N("getRepository")}

SchemaDecoratorSymbols ==
    {N("Entity"), N("Column"), N("PrimaryColumn"), N("PrimaryGeneratedColumn"),
     N("CreateDateColumn"), N("UpdateDateColumn"), N("DeleteDateColumn"),
     N("OneToOne"), N("ManyToOne"), N("OneToMany"), N("ManyToMany"),
     N("JoinColumn"), N("JoinTable")}

NotRepositorySymbol(s) ==
    ~(s.type = "ImportSpecifier" /\ NameOf(s.imported) \in RepositorySymbols)

NotSchemaDecoratorSymbol(s) ==
    ~(s.type = "ImportSpecifier"
      /\ NameOf(s.imported) \in SchemaDecoratorSymbols)

\* both filters read `specifiers`, the list as it was before either ran
TypeormSpecifiers(importDecl) ==
    LET specifiers == importDecl.specifiers
    IN  IF hasEntityImport(importDecl)
        THEN SelectSeq(specifiers, NotSchemaDecoratorSymbol)
        ELSE IF hasRepositoryImport(importDecl)
        THEN SelectSeq(specifiers, NotRepositorySymbol)
        ELSE specifiers

IsTypeorm(importDecl) == importDecl.source.value = N("typeorm")

IsTypeormRepositoryPath(importDecl) ==
    Includes(toLowerCase(importDecl.source.value),
             <<"typeorm", "/", "repository">>)

IsEntityPath(importDecl) ==
    LET path == importDecl.source.value
    IN  \/ path[Len(path)] = ".entity"
        \/ Includes(path, <<"/", "entities", "/">>)

\* the declaration as the loop leaves it: <<>> when it is removed
RewriteImport(importDecl) ==
    IF IsTypeorm(importDecl)
    THEN IF TypeormSpecifiers(importDecl) = <<>> THEN <<>>
         ELSE <<[importDecl EXCEPT !.specifiers = TypeormSpecifiers(importDecl)]>>
    ELSE IF IsTypeormRepositoryPath(importDecl) THEN <<>>
    ELSE IF IsEntityPath(importDecl)
    THEN <<[importDecl EXCEPT !.leading = Append(@, EntityImportTodo)]>>
    ELSE <<importDecl>>

ImportSetsModules(importDecl) ==
    IF IsTypeorm(importDecl)
    THEN hasRepositoryImport(importDecl) \/ hasEntityImport(importDecl)
    ELSE IsTypeormRepositoryPath(importDecl)

\* program.body.unshift(PrismaService import), once per matching declaration
ImportUnshifts(importDecl) ==
    IF IsTypeorm(importDecl) /\ hasRepositoryImport(importDecl)
    THEN <<PrismaServiceImport>> ELSE <<>>

RECURSIVE RewriteImports(_)
RewriteImports(imports) ==
    IF imports = <<>> THEN <<>>
    ELSE LET init == SubSeq(imports, 1, Len(imports) - 1)
             last == imports[Len(imports)]
         IN  ImportUnshifts(last) \o RewriteImports(init) \o RewriteImport(last)

\* forFeature: a call whose callee is the bare identifier `forFeature` and
\* whose parent is a member expression on the identifier TypeOrmModule
IsForFeature(reg) ==
    /\ reg.type = "CallExpression"
    /\ reg.callee.type = "Identifier"
    /\ reg.callee.name = N("forFeature")
    /\ reg.parent.type = "MemberExpression"
    /\ reg.parent.object.type = "Identifier"
    /\ reg.parent.object.name = N("TypeOrmModule")

IsForRoot(reg) ==
    /\ reg.type = "CallExpression"
    /\ reg.callee.type = "MemberExpression"
    /\ reg.callee.object.type = "Identifier"
    /\ reg.callee.object.name = N("TypeOrmModule")
    /\ reg.callee.property.type = "Identifier"
    /\ reg.callee.property.name = N("forRoot")

\* forFeature: the parent member expression is replaced by `PrismaModule`;
\* forRoot: the callee becomes `PrismaModule` and the arguments are cleared
RewriteRegistration(reg) ==
    IF IsForFeature(reg)
    THEN [type |-> "Identifier", name |-> N("PrismaModule"),
          parent |-> Null]
    ELSE IF IsForRoot(reg)
    THEN [reg EXCEPT !.callee = Identifier(N("PrismaModule")),
                     !.arguments = <<>>]
    ELSE reg

RegistrationRewritten(reg) == IsForFeature(reg) \/ IsForRoot(reg)

\* variant: the import is inserted without looking for an existing one
addPrismaModuleImport_Unchecked(imports) == <<PrismaModuleImport>> \o imports

\* addPrismaModuleImport: only when no import of that path exists yet
addPrismaModuleImport(imports) ==
    IF \E i \in 1..Len(imports) : imports[i].source.value = PrismaModulePath
    THEN imports
    ELSE <<PrismaModuleImport>> \o imports

ModuleImportsTree(root) ==
    LET imports == RewriteImports(root.imports)
        anyRegistration ==
            \E i \in 1..Len(root.registrations) :
                RegistrationRewritten(root.registrations[i])
    IN  [root EXCEPT
            !.imports = IF anyRegistration THEN addPrismaModuleImport(imports)
                        ELSE imports,
            !.registrations =
                [i \in 1..Len(root.registrations) |->
                    RewriteRegistration(root.registrations[i])]]

ModuleImportsSetsModules(root) ==
    \/ \E i \in 1..Len(root.imports) : ImportSetsModules(root.imports[i])
    \/ \E i \in 1..Len(root.registrations) :
          RegistrationRewritten(root.registrations[i])

(***************************************************************************)
(* Output assembly                                                         *)
(***************************************************************************)
NoFlags ==
    [entities |-> FALSE, repositories |-> FALSE, modules |-> FALSE,
     services |-> FALSE]

AnyFlag(flags) ==
    flags.entities \/ flags.repositories \/ flags.modules \/ flags.services

\* the text printed for j.identifier('private prisma') with its annotation
\* is `private prisma: PrismaService`, a parameter property
PrintParam(param) ==
    IF param.type = "Identifier" /\ param.name = N("private prisma")
    THEN [type |-> "TSParameterProperty", accessibility |-> "private",
          parameter |-> [type |-> "Identifier", name |-> N("prisma"),
                         typeAnnotation |-> param.typeAnnotation]]
    ELSE param

PrintClass(class) ==
    [class EXCEPT !.constructors =
        [k \in 1..Len(class.constructors) |->
            [params |-> [i \in 1..Len(class.constructors[k].params) |->
                            PrintParam(class.constructors[k].params[i])]]]]

\* root.toSource(): the file the printed text denotes
toSource(root) ==
    [root EXCEPT !.classes =
        [i \in 1..Len(root.classes) |-> PrintClass(root.classes[i])]]

\* variant: the fragments are emitted last-discovered first
SchemaDocument_Reversed(models) ==
    [log |-> "Generated Prisma schema:",
     preamble |-> "generator client / datasource db",
     enums |-> <<>>,
     models |-> [i \in 1..Len(models) |-> models[Len(models) + 1 - i].value]]

\* the schema text handed to console.log
SchemaDocument(models) ==
    [log |-> "Generated Prisma schema:",
     preamble |-> "generator client / datasource db",
     enums |-> <<>>,
     models |-> [i \in 1..Len(models) |-> models[i].value]]

TransformNote == [log |-> "NOTE: Entity transformation is provided for reference only."]

(***************************************************************************)
(* Input files                                                             *)
(***************************************************************************)
SeqsUpTo(S, n) == UNION {[1..k -> S] : k \in 0..n}

File(classes, calls, imports, registrations) ==
    [type |-> "File", classes |-> classes, calls |-> calls,
     imports |-> imports, registrations |-> registrations]

ClassDeclaration(id, decorators, properties, constructors) ==
    [type |-> "ClassDeclaration", id |-> id, decorators |-> decorators,
     properties |-> properties, constructors |-> constructors,
     leading |-> <<>>]

ClassProperty(name, typeAnnotation, decorators) ==
    [type |-> "ClassProperty", key |-> Identifier(name),
     typeAnnotation |-> typeAnnotation, decorators |-> decorators]

TSParameterProperty(name, typeAnnotation) ==
    [type |-> "TSParameterProperty", accessibility |-> "private",
     parameter |-> [type |-> "Identifier", name |-> name,
                    typeAnnotation |-> typeAnnotation]]

Call(callee, arguments, cls) ==
    [type |-> "CallExpression", callee |-> callee, arguments |-> arguments,
     leading |-> <<>>, cls |-> cls]

\* <base>.<member>.<method>(arguments) inside class number cls (0: none)
MemberCall(base, member, method, arguments, cls) ==
    Call(MemberExpression(MemberExpression(base, Identifier(N(member))),
                          Identifier(N(method))),
         arguments, cls)

Registration(callee, arguments, parent) ==
    [type |-> "CallExpression", callee |-> callee, arguments |-> arguments,
     parent |-> parent]

Num5 == NumericLiteral(5)
StrX == StringLiteral(N("x"))
IdUserId == Identifier(N("userId"))
NameX == Property(Identifier(N("name")), StrX)
RepositoryOf(entity) ==
    TSTypeReference(N("Repository"), <<TSTypeReference(entity, <<>>)>>)

RuleTableMethods ==
    {"find", "findOne", "findOneBy", "findBy", "save", "update", "delete",
     "remove", "count", "createQueryBuilder"}

\* methods outside the rule table: a TypeORM one and a prisma client one
OtherMethods == {"query", "findMany"}

UserService == ClassDeclaration(Identifier(<<"User", "Service">>), <<>>, <<>>, <<>>)

OrdersWithRepository ==
    ClassDeclaration(Identifier(N("Orders")), <<>>,
        <<ClassProperty(N("repository"), RepositoryOf(N("Order")), <<>>)>>, <<>>)

Helper == ClassDeclaration(Identifier(N("Helper")), <<>>, <<>>, <<>>)

\* a `repository` property whose type is not Repository<T>
AuditWithStore ==
    ClassDeclaration(Identifier(N("Audit")), <<>>,
        <<ClassProperty(N("repository"),
                        TSTypeReference(N("Store"),
                                        <<TSTypeReference(N("Order"), <<>>)>>),
                        <<>>)>>, <<>>)

ContextClasses == {UserService, OrdersWithRepository, AuditWithStore, Helper}

\* the class list and the position of the call for each context
Contexts ==
    {[classes |-> <<>>, cls |-> 0]}
    \cup {[classes |-> <<c>>, cls |-> k] : c \in ContextClasses, k \in {0, 1}}

GeneralArgs ==
    {<<>>, <<IdUserId>>, <<ObjectExpression(<<NameX>>)>>,
     <<Num5, ObjectExpression(<<NameX>>)>>}

GeneralCalls(cls) ==
    {MemberCall(base, member, method, args, cls) :
        base \in {ThisExpression, Identifier(N("other"))},
        member \in {"repository", "userRepository"},
        method \in RuleTableMethods \cup OtherMethods,
        args \in GeneralArgs}
    \cup {Call(Identifier(N("helper")), <<>>, cls),
          Call(MemberExpression(Identifier(N("repository")),
                                Identifier(N("find"))), <<>>, cls)}

CallFiles ==
    UNION {{File(ctx.classes, <<call>>, <<>>, <<>>) :
               call \in GeneralCalls(ctx.cls)} : ctx \in Contexts}

\* object literals passed to save / update / delete / remove / count
SaveProps ==
    {Property(Identifier(N("id")), Num5),
     Property(Identifier(N("id")), IdUserId),
     Property(Identifier(N("id")), NullLiteral),
     NameX,
     SpreadElement(Identifier(N("rest")))}

SaveObjects == {ObjectExpression(ps) : ps \in SeqsUpTo(SaveProps, MaxProps)}

SaveArgs ==
    {<<>>}
    \cup {<<a>> : a \in {Num5, StrX, IdUserId, NullLiteral} \cup SaveObjects}
    \cup {<<a, b>> : a \in {Num5, IdUserId},
                     b \in {IdUserId, ObjectExpression(<<NameX>>)}}
    \cup {<<Num5, ObjectExpression(<<NameX>>), IdUserId>>}

SaveFiles ==
    UNION {{File(ctx.classes,
                 <<MemberCall(ThisExpression, "repository", method, args,
                              ctx.cls)>>,
                 <<>>, <<>>) :
               method \in {"save", "update", "delete", "remove", "count"},
               args \in SaveArgs} :
           ctx \in {[classes |-> <<>>, cls |-> 0],
                    [classes |-> <<UserService>>, cls |-> 1]}}

\* option objects passed to findOne / count
FindProps ==
    {Property(Identifier(N("where")),
              ObjectExpression(<<Property(Identifier(N("id")), Num5)>>)),
     Property(StringLiteral(N("where")), IdUserId),
     Property(Identifier(N("relations")),
              ArrayExpression(<<StringLiteral(N("posts"))>>)),
     Property(StringLiteral(N("select")), IdUserId),
     Property(Identifier(N("take")), Num5),
     Property(Identifier(N("id")), Num5),
     Property(Identifier(N("withDeleted")), BooleanLiteral(TRUE)),
     SpreadElement(Identifier(N("rest")))}

FindObjects == {ObjectExpression(ps) : ps \in SeqsUpTo(FindProps, MaxProps)}

FindFiles ==
    {File(<<UserService>>,
          <<MemberCall(ThisExpression, "repository", method, <<obj>>, 1)>>,
          <<>>, <<>>) :
        method \in {"findOne", "count"}, obj \in FindObjects}

\* class declarations: names, class decorators, fields, constructors
ClassIds ==
    {Identifier(<<"User", "Service">>), Identifier(N("User")),
     Identifier(N("Service")), Null}

EntityCall(arguments) ==
    Decorator(CallExpression(Identifier(N("Entity")), arguments))

ClassDecorators ==
    {<<>>,
     <<EntityCall(<<>>)>>,
     <<EntityCall(<<StringLiteral(N("users"))>>)>>,
     <<EntityCall(<<ObjectExpression(
          <<Property(Identifier(N("name")), StringLiteral(N("users")))>>)>>)>>,
     <<EntityCall(<<ObjectExpression(
          <<SpreadElement(Identifier(N("base")))>>)>>)>>,
     <<Decorator(CallExpression(Identifier(N("Injectable")), <<>>))>>,
     <<Decorator(CallExpression(
          MemberExpression(Identifier(N("orm")), Identifier(N("Entity"))),
          <<>>))>>,
     <<Decorator(Identifier(N("Sealed")))>>}

RepositoryParam(name, entity) == TSParameterProperty(name, RepositoryOf(entity))

ConstructorLists ==
    {<<>>,
     <<[params |-> <<RepositoryParam(N("repository"), N("User"))>>]>>,
     <<[params |-> <<TSParameterProperty(N("config"),
                        TSTypeReference(N("ConfigService"), <<>>)),
                     RepositoryParam(N("userRepository"), N("User"))>>]>>}

ClassPool ==
    {ClassDeclaration(id, decorators, properties, constructors) :
        id \in ClassIds,
        decorators \in ClassDecorators,
        properties \in
            {<<>>,
             <<ClassProperty(N("repository"), RepositoryOf(N("Order")), <<>>)>>},
        constructors \in ConstructorLists}

ClassFiles ==
    {File(<<class>>, calls, <<>>, <<>>) :
        class \in ClassPool,
        calls \in {<<>>,
                   <<MemberCall(ThisExpression, "repository", "find", <<>>, 1)>>}}

\* entity classes with decorated fields
FieldDecorator(name, arguments) ==
    Decorator(CallExpression(Identifier(N(name)), arguments))

FieldPool ==
    {ClassProperty(N("id"), [type |-> "TSNumberKeyword"],
                   <<FieldDecorator("PrimaryGeneratedColumn", <<>>)>>),
     ClassProperty(N("id"), [type |-> "TSStringKeyword"],
                   <<FieldDecorator("PrimaryGeneratedColumn",
                                    <<StringLiteral(N("uuid"))>>)>>),
     ClassProperty(N("seq"), [type |-> "TSNumberKeyword"],
                   <<FieldDecorator("PrimaryGeneratedColumn",
                                    <<StringLiteral(N("increment"))>>)>>),
     ClassProperty(N("code"), [type |-> "TSStringKeyword"],
                   <<FieldDecorator("PrimaryColumn", <<>>)>>),
     ClassProperty(N("name"), [type |-> "TSStringKeyword"],
                   <<FieldDecorator("Column", <<>>)>>),
     ClassProperty(N("email"), Null,
                   <<FieldDecorator("Column", <<ObjectExpression(
                        <<Property(Identifier(N("type")),
                                   StringLiteral(N("VARCHAR"))),
                          Property(Identifier(N("unique")),
                                   BooleanLiteral(TRUE))>>)>>)>>),
     ClassProperty(N("meta"), Null,
                   <<FieldDecorator("Column", <<ObjectExpression(
                        <<SpreadElement(Identifier(N("base")))>>)>>)>>),
     ClassProperty(N("createdAt"), TSTypeReference(N("Date"), <<>>),
                   <<FieldDecorator("CreateDateColumn", <<>>)>>),
     ClassProperty(N("profile"), TSTypeReference(N("Profile"), <<>>),
                   <<FieldDecorator("OneToOne",
                        <<ArrowFunctionExpression(Identifier(N("Profile")))>>)>>),
     ClassProperty(N("owner"), TSTypeReference(N("User"), <<>>),
                   <<FieldDecorator("ManyToOne", <<>>)>>),
     ClassProperty(N("posts"), Null,
                   <<FieldDecorator("OneToMany",
                        <<ArrowFunctionExpression(Identifier(N("Post")))>>)>>),
     ClassProperty(N("tags"), Null,
                   <<FieldDecorator("ManyToMany",
                        <<ArrowFunctionExpression(Identifier(N("Tag")))>>),
                     FieldDecorator("JoinTable", <<>>)>>),
     ClassProperty(N("note"), [type |-> "TSStringKeyword"], <<>>)}

EntityFiles ==
    {File(<<ClassDeclaration(Identifier(N("User")), <<EntityCall(<<>>)>>,
                             properties, <<>>)>>,
          <<>>, <<>>, <<>>) :
        properties \in SeqsUpTo(FieldPool, MaxProps)}

\* the options of a Column decorator
OptionPool ==
    {Property(Identifier(N("default")), NumericLiteral(0)),
     Property(Identifier(N("default")), Num5),
     Property(Identifier(N("default")), BooleanLiteral(FALSE)),
     Property(Identifier(N("default")), BooleanLiteral(TRUE)),
     Property(Identifier(N("default")), StringLiteral(<<>>)),
     Property(Identifier(N("default")), StrX),
     Property(Identifier(N("default")),
              CallExpression(Identifier(N("Date")), <<>>)),
     Property(Identifier(N("default")), IdUserId),
     Property(Identifier(N("nullable")), BooleanLiteral(TRUE)),
     Property(Identifier(N("nullable")), BooleanLiteral(FALSE)),
     Property(Identifier(N("unique")), BooleanLiteral(TRUE)),
     Property(Identifier(N("type")), StringLiteral(N("int")))}

\* an entity class with one field whose Column decorator carries options
ColumnFiles ==
    {File(<<ClassDeclaration(Identifier(N("User")), <<EntityCall(<<>>)>>,
              <<ClassProperty(N("score"), [type |-> "TSNumberKeyword"],
                  <<FieldDecorator("Column",
                                   <<ObjectExpression(options)>>)>>)>>,
              <<>>)>>,
          <<>>, <<>>, <<>>) :
        options \in SeqsUpTo(OptionPool, MaxProps)}

\* the first arguments a relation decorator is given
RelationArgs ==
    {<<>>,
     <<ArrowFunctionExpression(Identifier(N("Profile")))>>,
     <<ArrowFunctionExpression(
          MemberExpression(Identifier(N("models")), Identifier(N("Profile"))))>>,
     <<StringLiteral(N("Profile"))>>,
     <<ArrowFunctionExpression(Identifier(N("Profile"))),
       ObjectExpression(<<Property(Identifier(N("eager")),
                                   BooleanLiteral(TRUE))>>)>>}

\* the declared types of a relation field
RelationTypes ==
    {Null,
     TSTypeReference(N("Account"), <<>>),
     [type |-> "TSArrayType",
      elementType |-> TSTypeReference(N("Account"), <<>>)]}

\* an entity class with one relation field
RelationFiles ==
    {File(<<ClassDeclaration(Identifier(N("User")), <<EntityCall(<<>>)>>,
              <<ClassProperty(N("link"), typeAnnotation,
                              <<FieldDecorator(kind, arguments)>>)>>,
              <<>>)>>,
          <<>>, <<>>, <<>>) :
        kind \in {"OneToOne", "ManyToOne", "OneToMany", "ManyToMany"},
        arguments \in RelationArgs,
        typeAnnotation \in RelationTypes}

\* decorators a field can carry together
RolePool ==
    {FieldDecorator("PrimaryGeneratedColumn", <<>>),
     FieldDecorator("PrimaryGeneratedColumn", <<StringLiteral(N("uuid"))>>),
     FieldDecorator("PrimaryGeneratedColumn", <<StringLiteral(N("rowid"))>>),
     FieldDecorator("PrimaryGeneratedColumn",
         <<ObjectExpression(<<Property(Identifier(N("name")),
                                       StringLiteral(N("user_id")))>>)>>),
     FieldDecorator("PrimaryColumn", <<>>),
     FieldDecorator("PrimaryColumn", <<StringLiteral(N("uuid"))>>),
     FieldDecorator("Column", <<>>),
     FieldDecorator("JoinColumn", <<>>)}

\* an entity class with one field carrying several decorators
RoleFiles ==
    {File(<<ClassDeclaration(Identifier(N("User")), <<EntityCall(<<>>)>>,
              <<ClassProperty(N("id"), [type |-> "TSNumberKeyword"],
                              decorators)>>,
              <<>>)>>,
          <<>>, <<>>, <<>>) :
        decorators \in SeqsUpTo(RolePool, MaxProps)}

\* constructor parameter properties of a service class
ParamPool ==
    {RepositoryParam(N("repository"), N("User")),
     RepositoryParam(N("userRepository"), N("User")),
     RepositoryParam(N("postRepository"), N("Post")),
     TSParameterProperty(N("config"),
                         TSTypeReference(N("ConfigService"), <<>>))}

\* a parameter list declares each name once
DistinctParams(params) ==
    \A i \in 1..Len(params) :
        \A k \in (i + 1)..Len(params) :
            params[i].parameter.name # params[k].parameter.name

\* a service class with injected repositories and a call through one
InjectedFiles ==
    {File(<<ClassDeclaration(Identifier(<<"User", "Service">>), <<>>, <<>>,
                             <<[params |-> params]>>)>>,
          calls, <<>>, <<>>) :
        params \in {ps \in SeqsUpTo(ParamPool, MaxProps) : DistinctParams(ps)},
        calls \in {<<>>,
                   <<MemberCall(ThisExpression, "repository", "find", <<>>, 1)>>,
                   <<MemberCall(ThisExpression, "userRepository", "find",
                                <<>>, 1)>>,
                   <<MemberCall(ThisExpression, "postRepository", "count",
                                <<>>, 1)>>}}

\* import declarations and module registrations
ImportPool ==
    {ImportDeclaration(<<ImportSpecifier(N("Repository"))>>, N("typeorm")),
     ImportDeclaration(<<ImportSpecifier(N("Entity")),
                         ImportSpecifier(N("Column"))>>, N("typeorm")),
     ImportDeclaration(<<ImportSpecifier(N("Repository")),
                         ImportSpecifier(N("Entity"))>>, N("typeorm")),
     ImportDeclaration(<<ImportSpecifier(N("Repository")),
                         ImportSpecifier(N("DataSource"))>>, N("typeorm")),
     ImportDeclaration(<<ImportSpecifier(N("DataSource"))>>, N("typeorm")),
     ImportDeclaration(<<ImportSpecifier(N("Column"))>>, N("typeorm")),
     ImportDeclaration(<<ImportSpecifier(N("Repository"))>>,
                       <<"TypeORM", "/", "repository", "/", "Repository">>),
     ImportDeclaration(<<ImportSpecifier(N("User"))>>,
                       <<".", "/", "user", ".entity">>),
     ImportDeclaration(<<ImportSpecifier(N("User"))>>,
                       <<".", "/", "entities", "/", "user">>),
     ImportDeclaration(<<ImportSpecifier(N("Injectable"))>>,
                       <<"@nestjs", "/", "common">>),
     PrismaModuleImport}

TypeOrmModuleCall(method, arguments) ==
    Registration(MemberExpression(Identifier(N("TypeOrmModule")),
                                  Identifier(N(method))),
                 arguments, [type |-> "ArrayExpression"])

RegistrationPool ==
    {TypeOrmModuleCall("forRoot", <<Identifier(N("ormConfig"))>>),
     TypeOrmModuleCall("forRoot", <<>>),
     TypeOrmModuleCall("forFeature",
                       <<ArrayExpression(<<Identifier(N("User"))>>)>>),
     Registration(Identifier(N("forFeature")),
                  <<ArrayExpression(<<Identifier(N("User"))>>)>>,
                  MemberExpression(Identifier(N("TypeOrmModule")), Null)),
     Registration(MemberExpression(Identifier(N("PrismaModule")),
                                   Identifier(N("forRoot"))),
                  <<>>, [type |-> "ArrayExpression"])}

\* the names an import declaration binds
Bindings(importDecl) ==
    {NameOf(importDecl.specifiers[k].imported) :
        k \in 1..Len(importDecl.specifiers)}

\* a module binds a name once: a second import of it does not parse
DistinctBindings(imports) ==
    \A i \in 1..Len(imports) :
        \A k \in (i + 1)..Len(imports) :
            Bindings(imports[i]) \cap Bindings(imports[k]) = {}

ImportFiles ==
    {File(<<>>, <<>>, imports, registrations) :
        imports \in {is \in SeqsUpTo(ImportPool, MaxProps) :
                        DistinctBindings(is)},
        registrations \in SeqsUpTo(RegistrationPool, 1)}

\* a second declaration from the path of the prisma module
PrismaModuleOptionsImport ==
    ImportDeclaration(<<ImportSpecifier(N("PrismaModuleOptions"))>>,
                      PrismaModulePath)

\* module files: several registrations, with and without prisma imports
RegistrationFiles ==
    {File(<<>>, <<>>, imports, registrations) :
        imports \in {<<>>,
                     <<PrismaModuleImport>>,
                     <<PrismaModuleOptionsImport>>,
                     <<PrismaModuleImport, PrismaModuleOptionsImport>>},
        registrations \in SeqsUpTo(RegistrationPool, MaxProps)}

\* files with several classes, entity classes among them
EntityPool ==
    {ClassDeclaration(Identifier(N("User")), <<EntityCall(<<>>)>>,
        <<ClassProperty(N("id"), [type |-> "TSNumberKeyword"],
                        <<FieldDecorator("PrimaryGeneratedColumn", <<>>)>>)>>,
        <<>>),
     ClassDeclaration(Identifier(N("User")),
        <<EntityCall(<<StringLiteral(N("users"))>>)>>, <<>>, <<>>),
     ClassDeclaration(Identifier(N("Profile")), <<EntityCall(<<>>)>>,
        <<ClassProperty(N("bio"), [type |-> "TSStringKeyword"],
                        <<FieldDecorator("Column", <<>>)>>)>>,
        <<>>),
     ClassDeclaration(Identifier(N("Post")), <<EntityCall(<<>>)>>, <<>>, <<>>),
     Helper}

MaxClasses == MaxProps + 1

MultiEntityFiles ==
    {File(classes, <<>>, <<>>, <<>>) :
        classes \in SeqsUpTo(EntityPool, MaxClasses)}

Files == CallFiles \cup SaveFiles \cup FindFiles \cup ClassFiles
         \cup EntityFiles \cup ImportFiles \cup RegistrationFiles
         \cup MultiEntityFiles \cup ColumnFiles \cup RelationFiles
         \cup RoleFiles \cup InjectedFiles

(***************************************************************************)
(* The transform: module.exports = function (fileInfo, api, options)       *)
(***************************************************************************)
None == [type |-> "none"]

Init ==
    /\ source \in Files
    /\ tree = source
    /\ fileChanged = NoFlags
    /\ prismaModels = <<>>
    /\ sink = <<>>
    /\ out = None
    /\ pc = "entities"
    /\ runs = 1

transformEntityClasses ==
    /\ pc = "entities"
    /\ sink' = Append(sink, TransformNote)
    /\ IF EntityClassesThrows(tree)
       THEN /\ pc' = "crashed"
            /\ UNCHANGED <<tree, fileChanged, prismaModels>>
       ELSE /\ tree' = EntityClassesTree(tree)
            /\ prismaModels' = EntityModels(tree.classes)
            /\ fileChanged' =
                  [fileChanged EXCEPT
                      !.entities = @ \/ EntityClassesSetsEntities(tree)]
            /\ pc' = "services"
    /\ UNCHANGED <<source, out, runs>>

transformRepositoryUsage ==
    /\ pc = "services"
    /\ IF RepositoryUsageThrows(tree)
       THEN /\ pc' = "crashed"
            /\ UNCHANGED <<tree, fileChanged>>
       ELSE /\ tree' = RepositoryUsageTree(tree)
            /\ fileChanged' =
                  [fileChanged EXCEPT
                      !.services = @ \/ RepositoryUsageSetsServices(tree)]
            /\ pc' = "modules"
    /\ UNCHANGED <<source, prismaModels, sink, out, runs>>

transformModuleImports ==
    /\ pc = "modules"
    /\ tree' = ModuleImportsTree(tree)
    /\ fileChanged' =
          [fileChanged EXCEPT !.modules = @ \/ ModuleImportsSetsModules(tree)]
    /\ pc' = "assemble"
    /\ UNCHANGED <<source, prismaModels, sink, out, runs>>

\* variant: the tree is printed whether or not a flag is set
Returned_Printed(flags, root, originalSource) == toSource(root)

\* the value returned: the printed tree if a flag is set, else the input
Returned(flags, root, originalSource) ==
    IF AnyFlag(flags) THEN toSource(root) ELSE originalSource

Assemble ==
    /\ pc = "assemble"
    /\ sink' = IF Len(prismaModels) > 0
               THEN Append(sink, SchemaDocument(prismaModels))
               ELSE sink
    /\ out' = Returned(fileChanged, tree, source)
    /\ pc' = "done"
    /\ UNCHANGED <<source, tree, fileChanged, prismaModels, runs>>

\* the transform applied again to the text it returned
Rerun ==
    /\ pc = "done"
    /\ runs < MaxRuns
    /\ source' = out
    /\ tree' = out
    /\ fileChanged' = NoFlags
    /\ prismaModels' = <<>>
    /\ sink' = <<>>
    /\ out' = None
    /\ pc' = "entities"
    /\ runs' = runs + 1

Next ==
    \/ transformEntityClasses
    \/ transformRepositoryUsage
    \/ transformModuleImports
    \/ Assemble
    \/ Rerun

Spec == Init /\ [][Next]_vars

(***************************************************************************)
(* Properties                                                              *)
(***************************************************************************)
\* the call-site loop has run: tree.calls[i] is the rewrite of source.calls[i]
AfterRepositoryUsage == pc \in {"modules", "assemble", "done"}

CallIndexes == 1..Len(source.calls)

OnRepository(call, method) ==
    IsRepositoryCall(call) /\ MethodName(call) = N(method)

RangeOf(s) == {s[i] : i \in 1..Len(s)}

\* C1: when the run is complete, the value returned is the original source
\* if no change flag is set (even if the tree was mutated) and the printed
\* tree if one is set; an input with none of the matched patterns is
\* returned as given.
HasMatchedPattern(file) ==
    \/ \E i \in 1..Len(file.classes) :
          isEntity(file.classes[i]) \/ hasRepositoryParam(file.classes[i])
    \/ \E i \in 1..Len(file.calls) : IsRepositoryCall(file.calls[i])
    \/ \E i \in 1..Len(file.imports) :
          \/ IsTypeorm(file.imports[i])
          \/ IsTypeormRepositoryPath(file.imports[i])
          \/ IsEntityPath(file.imports[i])
    \/ \E i \in 1..Len(file.registrations) :
          RegistrationRewritten(file.registrations[i])

C1_OutputAssembly ==
    pc = "done" =>
        /\ ~AnyFlag(fileChanged) => out = source
        /\ AnyFlag(fileChanged) => out = toSource(tree)
        /\ ~HasMatchedPattern(source) => out = source

\* C1 witness: no flag is set, the tree was mutated, the source is returned
C1_Witness ==
    /\ pc = "done"
    /\ ~AnyFlag(fileChanged)
    /\ tree # source
    /\ out = source

\* C2 (as claimed): a second run on the output of a first run sets no change
\* flag and returns its input unchanged.
C2_Idempotent ==
    (pc = "done" /\ runs >= 2) =>
        /\ ~AnyFlag(fileChanged)
        /\ out = source

\* C3 (as claimed): the pass completes for every input tree; no node shape
\* aborts it.
C3_NoCrash == pc # "crashed"

\* C4 (as claimed): save(obj), obj an object literal with an id property
\* whose value is not null (a literal or any other expression), becomes
\* update({where: {id: <value>}, data: <obj without that property>}).
C4_NonNullId(p) ==
    /\ NameOf(p.key) = N("id")
    /\ p.value.type # "NullLiteral"
    /\ p.value # Identifier(N("undefined"))

C4_SaveUpdate ==
    AfterRepositoryUsage =>
        \A i \in CallIndexes :
            LET call == source.calls[i]
                after == tree.calls[i]
            IN  (/\ OnRepository(call, "save")
                 /\ Len(call.arguments) = 1
                 /\ call.arguments[1].type = "ObjectExpression"
                 /\ \E k \in 1..Len(call.arguments[1].properties) :
                       C4_NonNullId(call.arguments[1].properties[k]))
                =>
                \E k \in 1..Len(call.arguments[1].properties) :
                    /\ C4_NonNullId(call.arguments[1].properties[k])
                    /\ MethodName(after) = N("update")
                    /\ after.arguments =
                          <<ObjectExpression(
                              <<WhereId(call.arguments[1].properties[k].value),
                                Data(ObjectExpression(
                                    RemoveAt(call.arguments[1].properties, k)))>>)>>

\* C5 (as claimed): a save(arg) call that is not rewritten to the update
\* form becomes create({data: arg}), whatever the shape of arg.
C5_SaveCreate ==
    AfterRepositoryUsage =>
        \A i \in CallIndexes :
            LET call == source.calls[i]
                after == tree.calls[i]
            IN  (/\ OnRepository(call, "save")
                 /\ Len(call.arguments) = 1
                 /\ MethodName(after) # N("update"))
                =>
                /\ MethodName(after) = N("create")
                /\ after.arguments =
                      <<ObjectExpression(<<Data(call.arguments[1])>>)>>

\* C6: update(id, data) with two arguments becomes update with exactly one
\* argument {where: {id: <id>}, data: <data>} holding both original
\* argument expressions unchanged.
C6_UpdateRule ==
    AfterRepositoryUsage =>
        \A i \in CallIndexes :
            LET call == source.calls[i]
                after == tree.calls[i]
            IN  (OnRepository(call, "update") /\ Len(call.arguments) = 2)
                =>
                /\ MethodName(after) = N("update")
                /\ Len(after.arguments) = 1
                /\ after.arguments[1].type = "ObjectExpression"
                /\ LET props == after.arguments[1].properties
                   IN  /\ Len(props) = 2
                       /\ props[1].key = Identifier(N("where"))
                       /\ props[1].value.type = "ObjectExpression"
                       /\ Len(props[1].value.properties) = 1
                       /\ props[1].value.properties[1].key = Identifier(N("id"))
                       /\ props[1].value.properties[1].value = call.arguments[1]
                       /\ props[2].key = Identifier(N("data"))
                       /\ props[2].value = call.arguments[2]

\* C6 witness: a two-argument update call was rewritten
C6_Witness ==
    /\ pc = "done"
    /\ \E i \in CallIndexes :
          /\ OnRepository(source.calls[i], "update")
          /\ Len(source.calls[i].arguments) = 2
          /\ source.calls[i].arguments[1] # source.calls[i].arguments[2]
          /\ Len(tree.calls[i].arguments) = 1

\* C7: delete(x) and remove(x) both become delete; a sole numeric or string
\* literal or identifier x becomes {where: {id: x}}, a sole object literal x
\* becomes {where: x}.
C7_DeleteRule ==
    AfterRepositoryUsage =>
        \A i \in CallIndexes :
            LET call == source.calls[i]
                after == tree.calls[i]
            IN  (OnRepository(call, "delete") \/ OnRepository(call, "remove"))
                =>
                /\ MethodName(after) = N("delete")
                /\ (/\ Len(call.arguments) = 1
                    /\ call.arguments[1].type \in
                          {"NumericLiteral", "StringLiteral", "Identifier"})
                   => after.arguments =
                         <<ObjectExpression(<<Property(Identifier(N("where")),
                             ObjectExpression(<<Property(Identifier(N("id")),
                                 call.arguments[1])>>))>>)>>
                /\ (/\ Len(call.arguments) = 1
                    /\ call.arguments[1].type = "ObjectExpression")
                   => after.arguments =
                         <<ObjectExpression(<<Property(Identifier(N("where")),
                             call.arguments[1])>>)>>

\* C7 witness: remove(<identifier>) was rewritten to delete({where: {id}})
C7_Witness ==
    /\ pc = "done"
    /\ \E i \in CallIndexes :
          /\ OnRepository(source.calls[i], "remove")
          /\ source.calls[i].arguments = <<IdUserId>>
          /\ MethodName(tree.calls[i]) = N("delete")
          /\ tree.calls[i].arguments[1].type = "ObjectExpression"

\* keys of the findOne options object
C8_KeptKeys == {N("select"), N("order"), N("skip"), N("take")}

C8_OptionKeys == C8_KeptKeys \cup {N("where"), N("relations")}

\* a spread element has no key: it is neither a filter nor an option
C8_IsBare(p) == ~NoKey(p) /\ KeyText(p) \notin C8_OptionKeys

C8_IsKept(p) == ~NoKey(p) /\ KeyText(p) \in C8_KeptKeys

C8_IsRelations(p) == ~NoKey(p) /\ KeyText(p) = N("relations")

C8_HasWhere(props) ==
    \E k \in 1..Len(props) :
        ~NoKey(props[k]) /\ KeyText(props[k]) = N("where")

C8_FindOneSite(i) ==
    /\ OnRepository(source.calls[i], "findOne")
    /\ Len(source.calls[i].arguments) = 1
    /\ source.calls[i].arguments[1].type = "ObjectExpression"

C8_WhereObjects(props) ==
    {props[k].value : k \in {j \in 1..Len(props) :
        /\ ~NoKey(props[j])
        /\ props[j].key = Identifier(N("where"))
        /\ props[j].value.type = "ObjectExpression"}}

\* C8 (as claimed): after findOne(obj) is rewritten to findUnique, every
\* bare filter property of obj is inside the `where` object and none is
\* left at top level; select/order/skip/take stay at top level; every
\* `relations` property is renamed to `include` with its value unchanged.
C8_FindOneRule ==
    AfterRepositoryUsage =>
        \A i \in CallIndexes :
            C8_FindOneSite(i) =>
                LET props == source.calls[i].arguments[1].properties
                    after == tree.calls[i].arguments[1].properties
                IN  /\ MethodName(tree.calls[i]) = N("findUnique")
                    /\ \A p \in RangeOf(props) :
                          C8_IsBare(p) =>
                              /\ p \notin RangeOf(after)
                              /\ \E w \in C8_WhereObjects(after) :
                                    p \in RangeOf(w.properties)
                    /\ SelectSeq(after, C8_IsKept) = SelectSeq(props, C8_IsKept)
                    /\ \A p \in RangeOf(props) :
                          C8_IsRelations(p) =>
                              /\ p \notin RangeOf(after)
                              /\ Property(Identifier(N("include")), p.value)
                                    \in RangeOf(after)

\* the first `relations` property renamed to `include`
C8_RenameFirst(props) ==
    [k \in 1..Len(props) |->
        IF /\ C8_IsRelations(props[k])
           /\ \A j \in 1..(k - 1) : ~C8_IsRelations(props[j])
        THEN Property(Identifier(N("include")), props[k].value)
        ELSE props[k]]

C8_NotBare(p) == ~C8_IsBare(p)

\* C8 (amended): if obj has no `where` property and has bare properties,
\* the bare properties are moved, in order, into a new `where` object that
\* is appended after the remaining properties; if obj has a `where`
\* property (or no bare property) no property is moved.  In both cases
\* select/order/skip/take keep their place and value, and the first
\* `relations` property is renamed to `include` with its value unchanged.
C8_FindOneRuleAmended ==
    AfterRepositoryUsage =>
        \A i \in CallIndexes :
            C8_FindOneSite(i) =>
                LET props == source.calls[i].arguments[1].properties
                    after == tree.calls[i].arguments[1].properties
                    bare == SelectSeq(props, C8_IsBare)
                IN  /\ MethodName(tree.calls[i]) = N("findUnique")
                    /\ Len(tree.calls[i].arguments) = 1
                    /\ (~C8_HasWhere(props) /\ bare # <<>>) =>
                          after = Append(
                              C8_RenameFirst(SelectSeq(props, C8_NotBare)),
                              Property(Identifier(N("where")),
                                       ObjectExpression(bare)))
                    /\ (C8_HasWhere(props) \/ bare = <<>>) =>
                          after = C8_RenameFirst(props)

\* C8 witness: bare properties moved into `where` next to a renamed
\* `relations`, and an object with `where` whose bare property stayed
C8_Witness ==
    /\ pc = "done"
    /\ \E i \in CallIndexes :
          /\ C8_FindOneSite(i)
          /\ LET props == source.calls[i].arguments[1].properties
                 after == tree.calls[i].arguments[1].properties
             IN  /\ ~C8_HasWhere(props)
                 /\ \E p \in RangeOf(props) : C8_IsBare(p)
                 /\ \E p \in RangeOf(props) : C8_IsRelations(p)
                 /\ \E p \in RangeOf(after) :
                       ~NoKey(p) /\ KeyText(p) = N("include")
                 /\ \E p \in RangeOf(after) :
                       ~NoKey(p) /\ KeyText(p) = N("where")

\* the rewriting rows of the rule table: source method -> target methods
C9_Rows ==
    [find |-> {"findMany"}, findOne |-> {"findUnique"},
     findOneBy |-> {"findUnique"}, findBy |-> {"findMany"},
     save |-> {"create", "update"}, update |-> {"update"},
     delete |-> {"delete"}, remove |-> {"delete"}, count |-> {"count"}]

C9_Rewritable(call) ==
    /\ IsRepositoryCall(call)
    /\ \E m \in DOMAIN C9_Rows : MethodName(call) = N(m)

\* C9: a call on a `repository`-named member whose method is a rewriting
\* row of the rule table gets the callee this.prisma.<Model>.<target>,
\* Model being the resolver's name for the call site, or `model` when the
\* resolver returns null.
C9_CalleeRewrite ==
    AfterRepositoryUsage =>
        \A i \in CallIndexes :
            LET call == source.calls[i]
                after == tree.calls[i].callee
                resolved == getModelNameFromContext(call, source)
            IN  C9_Rewritable(call) =>
                    /\ after.type = "MemberExpression"
                    /\ after.object.type = "MemberExpression"
                    /\ after.object.object =
                          MemberExpression(ThisExpression, Identifier(N("prisma")))
                    /\ after.object.property =
                          Identifier(IF resolved = <<>> THEN N("model")
                                     ELSE resolved)
                    /\ \E m \in DOMAIN C9_Rows :
                          /\ MethodName(call) = N(m)
                          /\ \E t \in C9_Rows[m] :
                                after.property = Identifier(N(t))

\* C9 witness: a call with no resolvable model got the placeholder, on a
\* receiver other than `this`
C9_Witness ==
    /\ pc = "done"
    /\ \E i \in CallIndexes :
          /\ C9_Rewritable(source.calls[i])
          /\ source.calls[i].callee.object.object.type = "Identifier"
          /\ getModelNameFromContext(source.calls[i], source) = <<>>
          /\ tree.calls[i].callee.object.property = Identifier(N("model"))

\* C10 (as claimed): the services flag is set only when a rule-table
\* rewrite or a constructor-parameter replacement happened.
C10_ClosedTable ==
    pc = "done" =>
        (fileChanged.services =>
            \/ \E i \in 1..Len(source.classes) :
                  hasRepositoryParam(source.classes[i])
            \/ \E i \in CallIndexes :
                  /\ IsRepositoryCall(source.calls[i])
                  /\ \E m \in RuleTableMethods :
                        MethodName(source.calls[i]) = N(m))

\* C11: a repository.createQueryBuilder(...) call keeps its callee (receiver
\* and method name) and its argument list; the only change at the site is
\* the advisory content inserted before it, a TODO line and then a
\* before/after example block.
C11_QueryBuilderPreserved ==
    AfterRepositoryUsage =>
        \A i \in CallIndexes :
            LET call == source.calls[i]
                after == tree.calls[i]
            IN  OnRepository(call, "createQueryBuilder") =>
                    /\ after.callee = call.callee
                    /\ after.arguments = call.arguments
                    /\ after = [call EXCEPT !.leading =
                                   @ \o <<QueryBuilderTodo, QueryBuilderExample>>]

\* C11 witness: a createQueryBuilder call with arguments, inside a class for
\* which a model name resolves, has been processed and carries the content
C11_Witness ==
    /\ AfterRepositoryUsage
    /\ runs = 1
    /\ \E i \in CallIndexes :
          /\ OnRepository(source.calls[i], "createQueryBuilder")
          /\ Len(source.calls[i].arguments) > 0
          /\ getModelNameFromContext(source.calls[i], source) # <<>>
          /\ tree.calls[i].leading = <<QueryBuilderTodo, QueryBuilderExample>>
          /\ tree.calls[i].callee = source.calls[i].callee


\* the entity pass has run without a TypeError
AfterEntityClasses == pc \in {"services", "modules", "assemble", "done"}

\* positions of the entity classes whose fragment is the one stored under
\* their name (no later entity class of the file has the same name)
StoredEntities ==
    {i \in 1..Len(source.classes) :
        /\ isEntity(source.classes[i])
        /\ \A k \in (i + 1)..Len(source.classes) :
               ~(isEntity(source.classes[k])
                 /\ source.classes[k].id = source.classes[i].id)}

\* the fragment stored for the class at position i
FragmentOf(i) ==
    (CHOOSE m \in RangeOf(prismaModels) :
        m.key = source.classes[i].id.name).value

\* the relation decorators of a field
RelationKinds(property) ==
    {DecoratorName(property.decorators[k]) :
        k \in {n \in 1..Len(property.decorators) :
                  /\ IsCallDecorator(property.decorators[n])
                  /\ DecoratorName(property.decorators[n])
                        \in RelationDecorators}}

IsRelationLine(l) == Len(l.attrs) = 1 /\ l.attrs[1].attr = "@relation"

\* the relation name claimed for a field of class C rendered as line l
C12_RelationName(kind, C, l) ==
    IF kind \in {N("OneToOne"), N("ManyToMany")}
    THEN C \o N("To") \o l.scalar
    ELSE l.name \o N("Relation")

\* C12: in the fragment of class C a OneToOne or ManyToMany field with
\* target T carries the relation name CToT and a ManyToOne or OneToMany
\* field named f carries fRelation; every relation field is rendered, and
\* no rendered relation line carries the name form of another kind.
C12_RelationNaming ==
    AfterEntityClasses =>
        \A i \in StoredEntities :
            LET C == source.classes[i].id.name
                lines == RangeOf(FragmentOf(i).fields)
            IN  \A k \in 1..Len(source.classes[i].properties) :
                    LET field == source.classes[i].properties[k]
                        rendered == {l \in lines :
                                        /\ l.name = field.key.name
                                        /\ IsRelationLine(l)}
                    IN  /\ RelationKinds(field) # {} => rendered # {}
                        /\ \A l \in rendered :
                              \E kind \in RelationKinds(field) :
                                  l.attrs[1].value = C12_RelationName(kind, C, l)

\* C12 witness: one fragment holds a relation named after class and target
\* and a relation named after its field
C12_Witness ==
    /\ pc = "done"
    /\ \E i \in StoredEntities :
          LET lines == RangeOf(FragmentOf(i).fields)
          IN  /\ \E l \in lines :
                    /\ IsRelationLine(l)
                    /\ l.attrs[1].value = <<"User", "To", "Profile">>
              /\ \E l \in lines :
                    /\ IsRelationLine(l)
                    /\ l.attrs[1].value = <<"posts", "Relation">>


\* the generated-identity decorators of a field
C13_IdentityDecorators(property) ==
    {property.decorators[n] :
        n \in {k \in 1..Len(property.decorators) :
                  /\ IsCallDecorator(property.decorators[k])
                  /\ DecoratorName(property.decorators[k])
                        = N("PrimaryGeneratedColumn")}}

C13_HasArgument(decorator, word) ==
    /\ Len(decorator.expression.arguments) > 0
    /\ decorator.expression.arguments[1] = StringLiteral(N(word))

C13_UuidLine(name) ==
    [name |-> name, scalar |-> N("String"), modifier |-> "",
     attrs |-> <<[attr |-> "@id"],
                 [attr |-> "@default",
                  value |-> [type |-> "SchemaFunction", text |-> "uuid()"]]>>]

C13_AutoincrementLine(name) ==
    [name |-> name, scalar |-> N("Int"), modifier |-> "",
     attrs |-> <<[attr |-> "@id"],
                 [attr |-> "@default",
                  value |-> [type |-> "SchemaFunction",
                             text |-> "autoincrement()"]]>>]

\* C13: a field with the generated-identity decorator and string argument
\* "uuid" renders as String with @id @default(uuid()); with argument
\* "increment" or with no argument it renders as Int with
\* @id @default(autoincrement()).
C13_IdentityMapping ==
    AfterEntityClasses =>
        \A i \in StoredEntities :
            LET lines == RangeOf(FragmentOf(i).fields)
            IN  \A k \in 1..Len(source.classes[i].properties) :
                    LET field == source.classes[i].properties[k]
                    IN  \A d \in C13_IdentityDecorators(field) :
                            /\ C13_HasArgument(d, "uuid") =>
                                   C13_UuidLine(field.key.name) \in lines
                            /\ (\/ C13_HasArgument(d, "increment")
                                \/ d.expression.arguments = <<>>) =>
                                   C13_AutoincrementLine(field.key.name) \in lines

\* C13 witness: the fragment of a class with two identity fields holds the
\* uuid identity rendered from a "uuid" argument and the autoincrement
\* identity rendered from an "increment" argument
C13_Witness ==
    /\ pc = "done"
    /\ \E i \in StoredEntities :
          LET fields == source.classes[i].properties
              lines == RangeOf(FragmentOf(i).fields)
          IN  /\ Len(fields) = 2
              /\ \E d \in C13_IdentityDecorators(fields[1]) :
                    C13_HasArgument(d, "uuid")
              /\ C13_UuidLine(fields[1].key.name) \in lines
              /\ \E d \in C13_IdentityDecorators(fields[2]) :
                    C13_HasArgument(d, "increment")
              /\ C13_AutoincrementLine(fields[2].key.name) \in lines

\* the import and registration pass has run
AfterModuleImports == pc \in {"assemble", "done"}

\* the declarations of the tree that came from declaration d of the source:
\* same path, and specifiers taken from those of d
RemainsOf(d) ==
    {t \in RangeOf(tree.imports) :
        /\ t.source = d.source
        /\ RangeOf(t.specifiers) \subseteq RangeOf(d.specifiers)}

\* C14 (as claimed): a declaration from 'typeorm' that imports Repository
\* no longer holds the Repository or getRepository specifier after the
\* pass, whatever else it imports (Entity included), and an import of
\* PrismaService has been inserted above the original declarations.
C14_RepositoryImportRewrite ==
    AfterModuleImports =>
        \A d \in RangeOf(source.imports) :
            (IsTypeorm(d) /\ hasRepositoryImport(d)) =>
                /\ \A t \in RemainsOf(d) :
                      \A k \in 1..Len(t.specifiers) :
                          NameOf(t.specifiers[k].imported)
                              \notin {N("Repository"), N("getRepository")}
                /\ \E k \in 1..Len(tree.imports) :
                      /\ tree.imports[k].source.value
                            = <<".", "/", "prisma.service">>
                      /\ Bindings(tree.imports[k]) = {N("PrismaService")}
                      /\ \A n \in 1..(k - 1) :
                            tree.imports[n] \notin RangeOf(source.imports)


\* C15 (as claimed): a declaration from 'typeorm' that imports any of the
\* schema-decorator symbols holds none of them after the pass, and it is
\* removed when no specifier is left.
C15_SchemaDecoratorImportRewrite ==
    AfterModuleImports =>
        \A d \in RangeOf(source.imports) :
            (/\ IsTypeorm(d)
             /\ Bindings(d) \cap SchemaDecoratorSymbols # {}) =>
                \A t \in RemainsOf(d) :
                    /\ Bindings(t) \cap SchemaDecoratorSymbols = {}
                    /\ t.specifiers # <<>>


\* a call of the shape TypeOrmModule.<method>(...)
C16_IsTypeOrmModuleCall(reg, method) ==
    /\ reg.type = "CallExpression"
    /\ reg.callee.type = "MemberExpression"
    /\ reg.callee.object = Identifier(N("TypeOrmModule"))
    /\ reg.callee.property = Identifier(N(method))

\* the identifier a callee starts with
C16_Receiver(callee) ==
    IF callee.type = "MemberExpression" THEN NameOf(callee.object)
    ELSE NameOf(callee)

\* C16 (as claimed): every call TypeOrmModule.forFeature([...]) and every
\* call TypeOrmModule.forRoot(...) has its receiver rewritten to
\* PrismaModule, the root form loses its arguments, and the modules flag
\* is set.
C16_RegistrationRewrite ==
    AfterModuleImports =>
        \A i \in 1..Len(source.registrations) :
            LET reg == source.registrations[i]
                after == tree.registrations[i]
            IN  /\ (\/ C16_IsTypeOrmModuleCall(reg, "forRoot")
                    \/ /\ C16_IsTypeOrmModuleCall(reg, "forFeature")
                       /\ Len(reg.arguments) = 1
                       /\ reg.arguments[1].type = "ArrayExpression") =>
                       /\ after.type = "CallExpression"
                       /\ C16_Receiver(after.callee) = N("PrismaModule")
                       /\ fileChanged.modules
                /\ C16_IsTypeOrmModuleCall(reg, "forRoot") =>
                       after.arguments = <<>>


\* the number of import declarations from './prisma/prisma.module'
C17_PrismaModuleImports(file) ==
    Cardinality({k \in 1..Len(file.imports) :
                    file.imports[k].source.value
                        = <<".", "/", "prisma", "/", "prisma.module">>})

\* the registration calls the pass rewrote
C17_Rewritten ==
    {i \in 1..Len(source.registrations) :
        tree.registrations[i] # source.registrations[i]}

\* C17 (as claimed): when at least one registration call was rewritten,
\* exactly one import from './prisma/prisma.module' exists after the pass,
\* however many calls were rewritten and whether or not such an import was
\* present in the input.
C17_OneModuleImport ==
    (AfterModuleImports /\ C17_Rewritten # {}) =>
        C17_PrismaModuleImports(tree) = 1

\* C17 (amended): when at least one registration call was rewritten, one
\* import from './prisma/prisma.module' is inserted if the input had none,
\* and none is inserted otherwise: the imports of that path the input had
\* are all kept, so their number after the pass is one if it was zero and
\* unchanged otherwise, however many calls were rewritten.
C17_OneModuleImportAmended ==
    (AfterModuleImports /\ C17_Rewritten # {}) =>
        C17_PrismaModuleImports(tree) =
            IF C17_PrismaModuleImports(source) = 0 THEN 1
            ELSE C17_PrismaModuleImports(source)

\* C17 witness: two registration calls were rewritten in a file without the
\* import, and one import was inserted
C17_Witness ==
    /\ AfterModuleImports
    /\ Cardinality(C17_Rewritten) >= 2
    /\ C17_PrismaModuleImports(source) = 0
    /\ C17_PrismaModuleImports(tree) = 1


\* C18 (as claimed): every mutation made by the import and registration
\* pass (specifiers dropped, a declaration removed, the advisory marker
\* put before an entity-path import, a registration call rewritten) sets
\* the modules flag, so the mutation is present in the returned output.
C18_ImportRewritesRecorded ==
    (pc = "done"
     /\ (\/ tree.imports # source.imports
         \/ tree.registrations # source.registrations)) =>
        /\ fileChanged.modules
        /\ out.imports = tree.imports
        /\ out.registrations = tree.registrations


\* the entity classes of the source at which a class name is met first
C19_FirstDiscovered ==
    SelectSeq([i \in 1..Len(source.classes) |-> i],
              LAMBDA i :
                  /\ isEntity(source.classes[i])
                  /\ \A k \in 1..(i - 1) :
                         ~(isEntity(source.classes[k])
                           /\ source.classes[k].id = source.classes[i].id))

\* the schema documents handed to the sink
C19_Emitted == SelectSeq(sink, LAMBDA entry : "models" \in DOMAIN entry)

\* C19: the schema document is emitted iff a model descriptor was produced
\* in this pass, which is iff the entities flag is set; it holds the fixed
\* preamble, then the enum fragments, then one model fragment per entity
\* class name in the order those names were first discovered in the file;
\* emitting it does not change what is returned.
C19_SchemaAssembly ==
    pc = "done" =>
        /\ Len(C19_Emitted) = IF Len(prismaModels) > 0 THEN 1 ELSE 0
        /\ (Len(prismaModels) > 0) <=> fileChanged.entities
        /\ \A n \in 1..Len(C19_Emitted) :
              LET document == C19_Emitted[n]
              IN  /\ document.preamble = "generator client / datasource db"
                  /\ document.enums = <<>>
                  /\ Len(document.models) = Len(C19_FirstDiscovered)
                  /\ \A m \in 1..Len(document.models) :
                        document.models[m].model =
                            source.classes[C19_FirstDiscovered[m]].id.name
        /\ out = IF AnyFlag(fileChanged) THEN toSource(tree) ELSE source

\* C19 witness: a file with three entity classes of two names, the first
\* name met again after the second, was emitted as two fragments in the
\* order of first discovery
C19_Witness ==
    /\ pc = "done"
    /\ Len(source.classes) >= 3
    /\ Len(C19_FirstDiscovered) = 2
    /\ C19_FirstDiscovered[2] = 2
    /\ isEntity(source.classes[3])
    /\ Len(C19_Emitted) = 1
    /\ Len(C19_Emitted[1].models) = 2
    /\ C19_Emitted[1].models[1].model # C19_Emitted[1].models[2].model


\* the name of the class declaration enclosing the call, <<>> for none
C20_ClassName(call, file) ==
    IF call.cls = 0 \/ file.classes[call.cls].id.type # "Identifier" THEN <<>>
    ELSE file.classes[call.cls].id.name

\* <Base> when name is <Base>Service, <Base>Controller or <Base>Repository
\* with a non-empty <Base>
C20_Base(name) ==
    IF /\ Len(name) > 1
       /\ \E suffix \in {"Service", "Controller", "Repository"} :
              name = SubSeq(name, 1, Len(name) - 1) \o <<suffix>>
    THEN SubSeq(name, 1, Len(name) - 1)
    ELSE <<>>

\* the T of the members `repository: Repository<T>` the class declares
C20_DeclaredEntities(class) ==
    {class.properties[k].typeAnnotation.typeParameters.params[1].typeName.name :
        k \in {n \in 1..Len(class.properties) :
                  LET member == class.properties[n]
                  IN  /\ member.key = Identifier(N("repository"))
                      /\ member.typeAnnotation.type = "TSTypeReference"
                      /\ member.typeAnnotation.typeName
                            = Identifier(N("Repository"))
                      /\ member.typeAnnotation.typeParameters.type # "null"
                      /\ member.typeAnnotation.typeParameters.params[1].type
                            = "TSTypeReference"}}

\* the name the claim gives for a call site, <<>> for null
C20_Resolved(call, file) ==
    LET name == C20_ClassName(call, file)
    IN  IF name # <<>> /\ C20_Base(name) # <<>> THEN {C20_Base(name)}
        ELSE IF /\ name # <<>>
                /\ call.callee.object
                      = MemberExpression(ThisExpression,
                                         Identifier(N("repository")))
                /\ C20_DeclaredEntities(file.classes[call.cls]) # {}
        THEN C20_DeclaredEntities(file.classes[call.cls])
        ELSE {<<>>}


C21_OptionObjects(property) ==
    {property.decorators[n].expression.arguments[1] :
        n \in {k \in 1..Len(property.decorators) :
                  /\ IsCallDecorator(property.decorators[k])
                  /\ DecoratorName(property.decorators[k]) = N("Column")
                  /\ Len(property.decorators[k].expression.arguments) > 0
                  /\ property.decorators[k].expression.arguments[1].type
                        = "ObjectExpression"}}

\* the marker the claim gives for one option, {} when it gives none
C21_Markers(option) ==
    IF NameOf(option.key) = N("default")
    THEN IF option.value.type
               \in {"StringLiteral", "NumericLiteral", "BooleanLiteral"}
         THEN {[attr |-> "@default", value |-> option.value]}
         ELSE IF /\ option.value.type = "CallExpression"
                 /\ NameOf(option.value.callee) = N("Date")
         THEN {[attr |-> "@default",
                value |-> [type |-> "SchemaFunction", text |-> "now()"]]}
         ELSE {}
    ELSE IF /\ NameOf(option.key) = N("nullable")
            /\ option.value = BooleanLiteral(TRUE)
    THEN {[attr |-> "?"]}
    ELSE IF /\ NameOf(option.key) = N("unique")
            /\ option.value = BooleanLiteral(TRUE)
    THEN {[attr |-> "@unique"]}
    ELSE {}

\* C21 (as claimed): for a Column decorator whose first argument is an
\* options object, a default that is a string, number or boolean literal
\* renders @default(<literal>) for every literal value (0, false and the
\* empty string included), a Date call renders @default(now()),
\* nullable: true renders the optional marker and unique: true renders
\* @unique.
C21_PlainFieldOptions ==
    AfterEntityClasses =>
        \A i \in StoredEntities :
            \A k \in 1..Len(source.classes[i].properties) :
                LET field == source.classes[i].properties[k]
                IN  \A options \in C21_OptionObjects(field) :
                        \A n \in 1..Len(options.properties) :
                            \A marker \in C21_Markers(options.properties[n]) :
                                \E l \in RangeOf(FragmentOf(i).fields) :
                                    /\ l.name = field.key.name
                                    /\ marker \in RangeOf(l.attrs)


\* the relation decorators of a field, as decorators
C22_RelationDecorators(property) ==
    {property.decorators[n] :
        n \in {k \in 1..Len(property.decorators) :
                  /\ IsCallDecorator(property.decorators[k])
                  /\ DecoratorName(property.decorators[k])
                        \in RelationDecorators}}

\* the identifier a thunk first argument returns, <<>> without such a thunk
C22_ThunkTarget(decorator) ==
    LET arguments == decorator.expression.arguments
    IN  IF /\ Len(arguments) > 0
           /\ arguments[1].type = "ArrowFunctionExpression"
           /\ arguments[1].body.type = "Identifier"
        THEN arguments[1].body.name
        ELSE <<>>

\* the name of the field's declared type reference, <<>> without one
C22_DeclaredTarget(property) ==
    IF property.typeAnnotation.type = "TSTypeReference"
    THEN NameOf(property.typeAnnotation.typeName)
    ELSE <<>>

\* the target the claim gives
C22_Target(property, decorator) ==
    IF C22_ThunkTarget(decorator) # <<>> THEN C22_ThunkTarget(decorator)
    ELSE IF C22_DeclaredTarget(property) # <<>>
    THEN C22_DeclaredTarget(property)
    ELSE N("Unknown")

\* C22 (as claimed): the target of a relation field is the identifier its
\* first-argument thunk returns; without such a thunk it is the name of the
\* field's declared type reference; it is Unknown only when neither gives
\* a name.
C22_RelationTargetResolution ==
    AfterEntityClasses =>
        \A i \in StoredEntities :
            \A k \in 1..Len(source.classes[i].properties) :
                LET field == source.classes[i].properties[k]
                IN  \A d \in C22_RelationDecorators(field) :
                        \E l \in RangeOf(FragmentOf(i).fields) :
                            /\ l.name = field.key.name
                            /\ IsRelationLine(l)
                            /\ l.scalar = C22_Target(field, d)


\* the decorator names that give a field a role in the schema
C23_Roles ==
    {N("PrimaryGeneratedColumn"), N("PrimaryColumn"), N("Column"),
     N("CreateDateColumn"), N("UpdateDateColumn"), N("DeleteDateColumn"),
     N("OneToOne"), N("ManyToOne"), N("OneToMany"), N("ManyToMany")}

\* the role decorators of a field, in declaration order
C23_RoleDecorators(property) ==
    SelectSeq(property.decorators,
              LAMBDA d : IsCallDecorator(d) /\ DecoratorName(d) \in C23_Roles)

\* the lines of a class when each field renders its first role only
RECURSIVE C23_FirstRoleLines(_, _)
C23_FirstRoleLines(className, properties) ==
    IF properties = <<>> THEN <<>>
    ELSE LET roles == C23_RoleDecorators(Head(properties))
         IN  (IF roles = <<>> THEN <<>>
              ELSE DecoratorLines(className, Head(properties), roles[1]))
             \o C23_FirstRoleLines(className, Tail(properties))

\* C23 (as claimed): a field with several role decorators contributes the
\* rendering of one role to the fragment, that of its first role decorator
\* in declaration order; later role decorators of the field add nothing.
C23_FirstRoleWins ==
    AfterEntityClasses =>
        \A i \in StoredEntities :
            FragmentOf(i).fields =
                C23_FirstRoleLines(source.classes[i].id.name,
                                   source.classes[i].properties)


\* whether the field carries an identity decorator
C24_IsIdentityField(property) ==
    \E k \in 1..Len(property.decorators) :
        /\ IsCallDecorator(property.decorators[k])
        /\ DecoratorName(property.decorators[k])
              \in {N("PrimaryGeneratedColumn"), N("PrimaryColumn")}

\* C24 (as claimed): every field with an identity decorator
\* (PrimaryGeneratedColumn or PrimaryColumn) is rendered with the @id
\* attribute, whatever the arguments of the decorator are.
C24_IdentityHasId ==
    AfterEntityClasses =>
        \A i \in StoredEntities :
            \A k \in 1..Len(source.classes[i].properties) :
                LET field == source.classes[i].properties[k]
                IN  C24_IsIdentityField(field) =>
                        \E l \in RangeOf(FragmentOf(i).fields) :
                            /\ l.name = field.key.name
                            /\ [attr |-> "@id"] \in RangeOf(l.attrs)


\* the names of the Repository<...> parameter properties of a class that
\* the pass replaced
C25_ReplacedMembers(c) ==
    UNION {{source.classes[c].constructors[k].params[n].parameter.name :
               n \in {m \in 1..Len(source.classes[c].constructors[k].params) :
                   LET param == source.classes[c].constructors[k].params[m]
                   IN  /\ param.type = "TSParameterProperty"
                       /\ param.parameter.typeAnnotation.type
                             = "TSTypeReference"
                       /\ param.parameter.typeAnnotation.typeName
                             = Identifier(N("Repository"))
                       /\ tree.classes[c].constructors[k].params[m] # param}} :
           k \in 1..Len(source.classes[c].constructors)}

\* C25 (as claimed): when a Repository<...> parameter property of a
\* constructor is replaced by the prisma parameter, every call made in that
\* class through this.<paramName> is rewritten in the same pass: the tree
\* holds no call through a member the pass removed.
C25_NoCallThroughRemovedMember ==
    AfterRepositoryUsage =>
        \A i \in 1..Len(tree.calls) :
            LET call == tree.calls[i]
            IN  (/\ call.cls # 0
                 /\ call.callee.type = "MemberExpression"
                 /\ call.callee.object.type = "MemberExpression"
                 /\ call.callee.object.object.type = "ThisExpression") =>
                    NameOf(call.callee.object.property)
                        \notin C25_ReplacedMembers(call.cls)


\* the name a constructor parameter declares in the printed file
C26_ParamName(param) ==
    IF param.type = "TSParameterProperty" THEN param.parameter.name
    ELSE param.name

\* the parameters of a list that are not typed Repository<...>
C26_Others(params) ==
    SelectSeq(params,
              LAMBDA p : ~(/\ p.type = "TSParameterProperty"
                           /\ p.parameter.typeAnnotation.type = "TSTypeReference"
                           /\ p.parameter.typeAnnotation.typeName
                                 = Identifier(N("Repository"))))

\* C26 (as claimed): in the returned file no constructor has two
\* parameters of the same name: the Repository<...> parameter properties of
\* one constructor give at most one prisma parameter, however many there
\* were, and the other parameters are kept, in their order.
C26_DistinctParameters ==
    (pc = "done" /\ AnyFlag(fileChanged)) =>
        \A c \in 1..Len(out.classes) :
            \A k \in 1..Len(out.classes[c].constructors) :
                LET params == out.classes[c].constructors[k].params
                    before == source.classes[c].constructors[k].params
                IN  /\ \A a \in 1..Len(params) :
                          \A b \in (a + 1)..Len(params) :
                              C26_ParamName(params[a]) # C26_ParamName(params[b])
                    /\ Cardinality({a \in 1..Len(params) :
                            C26_ParamName(params[a]) = N("prisma")}) <= 1
                    /\ C26_Others(before) =
                          SelectSeq(params,
                              LAMBDA p : p \in RangeOf(C26_Others(before)))


====
